---- MODULE Spec2Model ----
(***************************************************************************)
(* phono: conversion of audio files over HTTP and from the command line.    *)
(*                                                                         *)
(* The module models                                                       *)
(*   - the parameter validators (file.Wav.BuildSink, file.Mp3.BuildSink,   *)
(*     input.Wav.Build, input.Mp3.Build) and the form adapter that feeds   *)
(*     them (form.Encode.ParseSink and its helpers),                       *)
(*   - the command line adapters (encode mp3, encode wav),                 *)
(*   - the two HTTP handlers of the repository, controller.Convert and     *)
(*     convertHandler, one step of the handler per action.                 *)
(*                                                                         *)
(* Go strings are sequences of one-character strings, so that ToLower,     *)
(* ToUpper, Atoi, Itoa, filepath.Ext and path.Base are computed and not    *)
(* assumed.                                                                *)
(***************************************************************************)
EXTENDS Integers, Sequences, FiniteSets, TLC

VARIABLES
    vin,      \* the input last handed to a validator (adapter, raw parameters)
    vout,     \* what the validator returned for vin
    cfg,      \* form.Encode: the configured maximum input sizes
    job,      \* per request: the handler's locals and its position
    resp,     \* per request: what has been written to the ResponseWriter
    fs,       \* the temp directory: file name -> size, for the files that exist
    handles,  \* open *os.File handles: [id, name, owner, pos]
    hist,     \* per request: the calls the handler has made, in order
    nreq,     \* the number of requests the server has received
    srv       \* the server process: serve's goroutines, its listener and temp directory

vars == <<vin, vout, cfg, job, resp, fs, handles, hist, nreq, srv>>

(***************************************************************************)
(* Strings                                                                 *)
(***************************************************************************)
UpperChars == <<"A","B","C","D","E","F","G","H","I","J","K","L","M",
                "N","O","P","Q","R","S","T","U","V","W","X","Y","Z">>
LowerChars == <<"a","b","c","d","e","f","g","h","i","j","k","l","m",
                "n","o","p","q","r","s","t","u","v","w","x","y","z">>
Digits == <<"0","1","2","3","4","5","6","7","8","9">>

IndexIn(c, chars) ==
    IF \E i \in 1..Len(chars) : chars[i] = c
    THEN CHOOSE i \in 1..Len(chars) : chars[i] = c
    ELSE 0

\* strings.ToLower
ToLower(s) ==
    [i \in 1..Len(s) |->
        IF IndexIn(s[i], UpperChars) > 0 THEN LowerChars[IndexIn(s[i], UpperChars)] ELSE s[i]]

\* strings.ToUpper
ToUpper(s) ==
    [i \in 1..Len(s) |->
        IF IndexIn(s[i], LowerChars) > 0 THEN UpperChars[IndexIn(s[i], LowerChars)] ELSE s[i]]

\* strings.HasSuffix
HasSuffix(s, suffix) ==
    /\ Len(suffix) <= Len(s)
    /\ SubSeq(s, Len(s) - Len(suffix) + 1, Len(s)) = suffix

\* the last index of c in s, 0 when there is none
LastIndex(s, c) ==
    IF \E i \in 1..Len(s) : s[i] = c
    THEN CHOOSE i \in 1..Len(s) : s[i] = c /\ \A k \in (i+1)..Len(s) : s[k] # c
    ELSE 0

\* filepath.Ext: the suffix beginning at the final dot of the final element
FilepathExt(name) ==
    LET dot   == LastIndex(name, ".")
        slash == LastIndex(name, "/")
    IN IF dot > slash THEN SubSeq(name, dot, Len(name)) ELSE <<>>

RECURSIVE TrimSlashes(_)
TrimSlashes(p) ==
    IF Len(p) > 0 /\ p[Len(p)] = "/" THEN TrimSlashes(SubSeq(p, 1, Len(p) - 1)) ELSE p

\* path.Base: the last element of the path
PathBase(p) ==
    IF Len(p) = 0 THEN <<".">>
    ELSE LET t == TrimSlashes(p)
         IN IF Len(t) = 0 THEN <<"/">>
            ELSE SubSeq(t, LastIndex(t, "/") + 1, Len(t))

RECURSIVE DigitsValue(_)
DigitsValue(ds) ==
    IF Len(ds) = 0 THEN 0
    ELSE 10 * DigitsValue(SubSeq(ds, 1, Len(ds) - 1)) + (IndexIn(ds[Len(ds)], Digits) - 1)

AtoiBody(s) == IF Len(s) > 0 /\ s[1] \in {"+", "-"} THEN Tail(s) ELSE s

\* strconv.Atoi accepts an optional sign followed by one or more decimal digits
AtoiOk(s) ==
    /\ Len(AtoiBody(s)) > 0
    /\ \A i \in 1..Len(AtoiBody(s)) : IndexIn(AtoiBody(s)[i], Digits) > 0

AtoiValue(s) ==
    IF Len(s) > 0 /\ s[1] = "-" THEN 0 - DigitsValue(AtoiBody(s)) ELSE DigitsValue(AtoiBody(s))

RECURSIVE NatDigits(_)
NatDigits(n) ==
    IF n < 10 THEN <<Digits[n + 1]>> ELSE Append(NatDigits(n \div 10), Digits[(n % 10) + 1])

\* strconv.Itoa, and the rendering of an int by %v and %d
Itoa(n) == IF n < 0 THEN <<"-">> \o NatDigits(0 - n) ELSE NatDigits(n)

\* strconv.ParseBool
ParseBoolTrue  == {<<"1">>, <<"t">>, <<"T">>, <<"T","R","U","E">>, <<"t","r","u","e">>, <<"T","r","u","e">>}
ParseBoolFalse == {<<"0">>, <<"f">>, <<"F">>, <<"F","A","L","S","E">>, <<"f","a","l","s","e">>, <<"F","a","l","s","e">>}

(***************************************************************************)
(* Formats (file.go:51-92, input.go:47-75)                                 *)
(***************************************************************************)
ExtWav  == <<".","w","a","v">>
ExtWave == <<".","w","a","v","e">>
ExtMp3  == <<".","m","p","3">>
ExtFlac == <<".","f","l","a","c">>

WavExtensions  == {ExtWav, ExtWave}
Mp3Extensions  == {ExtMp3}
FlacExtensions == {ExtFlac}

BitDepths    == {8, 16, 24, 32}
MinBitRate   == 8
MaxBitRate   == 320
ChannelModes == {0, 1, 2}

VBR == <<"V","B","R">>
CBR == <<"C","B","R">>
ABR == <<"A","B","R">>

(***************************************************************************)
(* Results: Go's (value, error) pairs.  An error is the format string of   *)
(* its fmt.Errorf call with the rendered arguments; NoErr is the nil error *)
(* and NilFn the nil build function.                                       *)
(***************************************************************************)
NoErr == [fmt |-> "", args |-> <<>>]
Errorf(f, a) == [fmt |-> f, args |-> a]
NilFn == [format |-> "nil"]

Ok(fn)   == [fn |-> fn, err |-> NoErr]
Fail(e)  == [fn |-> NilFn, err |-> e]

(***************************************************************************)
(* Validators (file.go:122-192, input.go:84-159)                           *)
(***************************************************************************)
\* A build function is the closure the validator returns: the variables it
\* captured.  Applying it to a writer gives the sink.
WavFn(bd) == [format |-> "wav", bitDepth |-> bd]
Mp3Fn(mode, rate, cm, useQuality, quality) ==
    [format |-> "mp3", brm |-> [mode |-> mode, rate |-> rate], channelMode |-> cm,
     useQuality |-> useQuality, quality |-> quality]

\* the closures of file.go:130-135 and file.go:173-183 applied to a writer
ApplyFn(fn, ws) ==
    IF fn.format = "wav"
    THEN [format |-> "wav", bitDepth |-> fn.bitDepth, writer |-> ws]
    ELSE [format |-> "mp3", brm |-> fn.brm, channelMode |-> fn.channelMode,
          qualitySet |-> fn.useQuality,
          quality |-> IF fn.useQuality THEN fn.quality ELSE 0,
          writer |-> ws]

\* a validator that takes every whole number of bytes up to 32 bits
wavBuildSinkWholeBytes(bitDepth) ==
    IF bitDepth % 8 # 0 \/ bitDepth > 32
    THEN Fail(Errorf("Bit depth %v is not supported", <<Itoa(bitDepth)>>))
    ELSE Ok(WavFn(bitDepth))

\* file.go:124 wavFormat.BuildSink
wavBuildSink(bitDepth) ==
    IF bitDepth \notin BitDepths
    THEN Fail(Errorf("Bit depth %v is not supported", <<Itoa(bitDepth)>>))
    ELSE Ok(WavFn(bitDepth))

\* input.go:85 wavFormat.Build
wavBuild(bitDepth) ==
    IF bitDepth \notin BitDepths
    THEN Fail(Errorf("Bit depth %v is not supported", <<Itoa(bitDepth)>>))
    ELSE Ok(WavFn(bitDepth))

\* a bit rate check that leaves out the two ends of the range
bitRateExclusive(v) ==
    IF v >= MaxBitRate \/ v <= MinBitRate
    THEN Errorf("Bit rate %v is not supported. Provide value between %d and %d",
                <<Itoa(v), Itoa(MinBitRate), Itoa(MaxBitRate)>>)
    ELSE NoErr

\* file.go:187 and input.go:154 mp3Format.bitRate
bitRate(v) ==
    IF v > MaxBitRate \/ v < MinBitRate
    THEN Errorf("Bit rate %v is not supported. Provide value between %d and %d",
                <<Itoa(v), Itoa(MinBitRate), Itoa(MaxBitRate)>>)
    ELSE NoErr

\* file.go:167-183: the quality gate and the closure
mp3Quality(mode, rate, cm, useQuality, quality) ==
    IF useQuality /\ (quality < 0 \/ quality > 9)
    THEN Fail(Errorf("MP3 quality %v is not supported", <<Itoa(quality)>>))
    ELSE Ok(Mp3Fn(mode, rate, cm, useQuality, quality))

\* file.go:146-165: the switch on the bit rate mode, already matched to a case
mp3BitRateMode(mode, unsupported, rate, cm, useQuality, quality) ==
    CASE mode = VBR ->
            IF rate < 0 \/ rate > 9
            THEN Fail(Errorf("VBR quality %v is not supported", <<Itoa(rate)>>))
            ELSE mp3Quality("VBR", rate, cm, useQuality, quality)
      [] mode = CBR ->
            IF bitRate(rate) # NoErr THEN Fail(bitRate(rate))
            ELSE mp3Quality("CBR", rate, cm, useQuality, quality)
      [] mode = ABR ->
            IF bitRate(rate) # NoErr THEN Fail(bitRate(rate))
            ELSE mp3Quality("ABR", rate, cm, useQuality, quality)
      [] OTHER -> Fail(unsupported)

\* file.go:140 mp3Format.BuildSink
mp3BuildSink(bitRateMode, rate, channelMode, useQuality, quality) ==
    IF channelMode \notin ChannelModes
    THEN Fail(Errorf("Channel mode %v is not supported", <<Itoa(channelMode)>>))
    ELSE mp3BitRateMode(ToUpper(bitRateMode),
                        Errorf("Bit rate mode %v is not supported", <<bitRateMode>>),
                        rate, channelMode, useQuality, quality)

\* input.go:107 mp3Format.Build: the mode is compared as given
mp3Build(bitRateMode, rate, channelMode, useQuality, quality) ==
    IF channelMode \notin ChannelModes
    THEN Fail(Errorf("Channel mode %v is not supported", <<Itoa(channelMode)>>))
    ELSE mp3BitRateMode(bitRateMode,
                        Errorf("VBR mode %v is not supported", <<bitRateMode>>),
                        rate, channelMode, useQuality, quality)

(***************************************************************************)
(* The HTTP form adapter (form/encode.go:110-233).  data is url.Values: a  *)
(* function from the form's keys to strings, "" for a key that is absent.  *)
(***************************************************************************)
FormKeys == {"format", "wav-bit-depth", "mp3-channel-mode", "mp3-bit-rate-mode",
             "mp3-bit-rate", "mp3-vbr-quality", "mp3-use-quality", "mp3-quality"}

Get(data, key) == data[key]

\* Go's (int, error) and (bool, error)
Val(v)     == [val |-> v, err |-> NoErr]
ValErr(e)  == [val |-> 0, err |-> e]
Bool(b)    == [val |-> b, err |-> NoErr]
BoolErr(e) == [val |-> FALSE, err |-> e]

\* encode.go:205 parseIntValue
parseIntValue(data, key, name) ==
    LET str == Get(data, key)
    IN IF str = <<>> THEN ValErr(Errorf("%s not provided", <<name>>))
       ELSE IF ~AtoiOk(str)
            THEN ValErr(Errorf("Failed parsing %s %s: %v", <<name, str>>))
            ELSE Val(AtoiValue(str))

\* encode.go:221 parseBoolValue
parseBoolValue(data, key, name) ==
    LET str == Get(data, key)
    IN IF str = <<>> THEN Bool(FALSE)
       ELSE IF str \in ParseBoolTrue THEN Bool(TRUE)
       ELSE IF str \in ParseBoolFalse THEN Bool(FALSE)
       ELSE BoolErr(Errorf("Failed parsing %s %s: %v", <<name, str>>))

\* encode.go:143 parseWAVSink
parseWAVSink(data) ==
    LET bd == parseIntValue(data, "wav-bit-depth", <<"b","i","t"," ","d","e","p","t","h">>)
    IN IF bd.err # NoErr THEN Fail(bd.err) ELSE wavBuildSink(bd.val)

\* an adapter that asks for the quality whatever the flag says
parseMP3QualityAlways(data, bitRateMode, rate, channelMode) ==
    LET useQuality == parseBoolValue(data, "mp3-use-quality",
                                     <<"m","p","3"," ","q","u","a","l","i","t","y">>)
        quality == parseIntValue(data, "mp3-quality",
                                 <<"m","p","3"," ","q","u","a","l","i","t","y">>)
    IN IF useQuality.err # NoErr THEN Fail(useQuality.err)
       ELSE IF quality.err # NoErr THEN Fail(quality.err)
       ELSE mp3BuildSink(bitRateMode, rate, channelMode, useQuality.val, quality.val)

\* encode.go:187-200: the quality gate and the call of the validator
parseMP3Quality(data, bitRateMode, rate, channelMode) ==
    LET useQuality == parseBoolValue(data, "mp3-use-quality",
                                     <<"m","p","3"," ","q","u","a","l","i","t","y">>)
        quality == parseIntValue(data, "mp3-quality",
                                 <<"m","p","3"," ","q","u","a","l","i","t","y">>)
    IN IF useQuality.err # NoErr THEN Fail(useQuality.err)
       ELSE IF useQuality.val /\ quality.err # NoErr THEN Fail(quality.err)
       ELSE mp3BuildSink(bitRateMode, rate, channelMode, useQuality.val,
                         IF useQuality.val THEN quality.val ELSE 0)

\* an adapter that reads every rate from the field of the VBR quality
parseMP3RateOneField(data, bitRateMode) ==
    CASE bitRateMode \in {VBR, CBR, ABR} ->
            parseIntValue(data, "mp3-vbr-quality", <<"v","b","r"," ","q","u","a","l","i","t","y">>)
      [] OTHER -> Val(0)

\* encode.go:165-185: the rate is read from the field of the bit rate mode;
\* the switch has no default, so any other mode leaves the rate 0
parseMP3Rate(data, bitRateMode) ==
    CASE bitRateMode = VBR ->
            parseIntValue(data, "mp3-vbr-quality", <<"v","b","r"," ","q","u","a","l","i","t","y">>)
      [] bitRateMode \in {CBR, ABR} ->
            parseIntValue(data, "mp3-bit-rate", <<"b","i","t"," ","r","a","t","e">>)
      [] OTHER -> Val(0)

\* encode.go:152 parseMP3Sink
parseMP3Sink(data) ==
    LET channelMode == parseIntValue(data, "mp3-channel-mode",
                                     <<"c","h","a","n","n","e","l"," ","m","o","d","e">>)
        bitRateMode == Get(data, "mp3-bit-rate-mode")
        rate == parseMP3Rate(data, bitRateMode)
    IN IF channelMode.err # NoErr THEN Fail(channelMode.err)
       ELSE IF bitRateMode = <<>> THEN Fail(Errorf("Please provide bit rate mode", <<>>))
       ELSE IF rate.err # NoErr THEN Fail(rate.err)
       ELSE parseMP3Quality(data, bitRateMode, rate.val, channelMode.val)

\* encode.go:127 Encode.ParseSink: (fn, ext, err)
ParseSink(data) ==
    LET ext == ToLower(Get(data, "format"))
        r == CASE ext = ExtWav -> parseWAVSink(data)
               [] ext = ExtMp3 -> parseMP3Sink(data)
               [] OTHER -> Fail(Errorf("Unsupported format: %v", <<ext>>))
    IN [fn |-> r.fn, ext |-> IF r.err # NoErr THEN <<>> ELSE ext, err |-> r.err]

(***************************************************************************)
(* Bounds of the model                                                     *)
(***************************************************************************)
MaxRateInput     == 322  \* rates handed to the validators: MinRateInput..MaxRateInput
MaxQualityInput  == 10   \* qualities handed to the validators: -1..MaxQualityInput
MaxChannelInput  == 3    \* channel modes handed to the validators: -1..MaxChannelInput
MaxBitDepthInput == 33   \* bit depths handed to the validators: -1..MaxBitDepthInput
                         \* (signal.BitDepth is an unsigned type of another module;
                         \*  the conversion keeps every value in 0..255)

RateInputs     == (0 - 2)..MaxRateInput
CliRateInputs  == {0 - 1, 0, 9, 10, MinBitRate - 1, MinBitRate, MaxBitRate, MaxBitRate + 1}
QualityInputs  == (0 - 1)..MaxQualityInput
ChannelInputs  == (0 - 1)..MaxChannelInput
BitDepthInputs == (0 - 1)..MaxBitDepthInput

\* bit rate modes as a caller may spell them
ModeInputs == {VBR, CBR, ABR, <<"v","b","r">>, <<"c","b","r">>, <<"a","b","r">>,
               <<"V","b","r">>, <<"X","B","R">>, <<>>}

\* raw form values for the integer fields
RawChannelModes == {<<>>, <<"x">>, Itoa(2), Itoa(3)}
RawModes        == {<<>>, VBR, CBR, ABR, <<"v","b","r">>, <<"X","B","R">>}
RawBitRates     == {<<>>, <<"x">>, Itoa(7), Itoa(8), Itoa(320), Itoa(321)}
RawVbrQualities == {<<>>, <<"x">>, Itoa(0 - 1), Itoa(0), Itoa(4), Itoa(9), Itoa(10)}
RawUseQualities == {<<>>, <<"t","r","u","e">>, <<"f","a","l","s","e">>, <<"y","e","s">>, <<"1">>}
RawQualities    == {<<>>, <<"x">>, Itoa(0 - 1), Itoa(0), Itoa(5), Itoa(9), Itoa(10)}
RawBitDepths    == {<<>>, <<"x">>, <<"+","8">>, <<"1","6","b">>} \cup {Itoa(b) : b \in BitDepthInputs}
RawFormats      == {ExtWav, ExtMp3, <<".","W","A","V">>, <<".","M","p","3">>, ExtFlac,
                    <<"w","a","v">>, <<>>}

EmptyForm == [k \in FormKeys |-> <<>>]

WavForms ==
    {[EmptyForm EXCEPT !["format"] = f, !["wav-bit-depth"] = b] :
        f \in {ExtWav, <<".","W","A","V">>}, b \in RawBitDepths}

Mp3Forms ==
    {[EmptyForm EXCEPT !["format"] = ExtMp3, !["mp3-channel-mode"] = c,
                       !["mp3-bit-rate-mode"] = m, !["mp3-bit-rate"] = r,
                       !["mp3-vbr-quality"] = v, !["mp3-use-quality"] = u,
                       !["mp3-quality"] = q] :
        c \in RawChannelModes, m \in RawModes, r \in RawBitRates,
        v \in RawVbrQualities, u \in RawUseQualities, q \in RawQualities}

OtherForms == {[EmptyForm EXCEPT !["format"] = f] : f \in RawFormats}

Forms == WavForms \cup Mp3Forms \cup OtherForms

(***************************************************************************)
(* The commands of the program.  A run of the program is one command:      *)
(* "encode mp3", "encode wav", "encode http" (serve, with the handler      *)
(* Convert over form.Encode{}), the server of part_002 (main, with         *)
(* convertHandler); "library" stands for a caller of the exported          *)
(* validators and "convert" for a server that mounts controller.Convert    *)
(* over a form.Encode with every limit set.                                *)
(***************************************************************************)
Commands == {"encode mp3", "encode wav", "encode http", "main", "library", "convert"}

NoInput  == [adapter |-> "none"]
NoOutput == [fn |-> NilFn, ext |-> <<>>, err |-> NoErr, exit |-> 0 - 1]

\* (fn, err) of a validator as the outcome of a call
Outcome(r, ext, exit) == [fn |-> r.fn, ext |-> ext, err |-> r.err, exit |-> exit]

\* encode.go:127: a caller hands the form to ParseSink
CallParseSink ==
    /\ cfg.cmd = "library"
    /\ vin = NoInput
    /\ \E data \in Forms :
        /\ vin' = [adapter |-> "form", data |-> data]
        /\ vout' = Outcome(ParseSink(data), ParseSink(data).ext, 0 - 1)
    /\ UNCHANGED <<cfg, srv, job, resp, fs, handles, hist, nreq>>

\* the accepted configuration written back as form values: each parameter
\* under the key and in the spelling the form uses for it
ModeName(mode) == CASE mode = "VBR" -> VBR [] mode = "CBR" -> CBR [] OTHER -> ABR

FormValues(fn, ext) ==
    IF fn.format = "wav"
    THEN [EmptyForm EXCEPT !["format"] = ext, !["wav-bit-depth"] = Itoa(fn.bitDepth)]
    ELSE [EmptyForm EXCEPT
            !["format"] = ext,
            !["mp3-channel-mode"] = Itoa(fn.channelMode),
            !["mp3-bit-rate-mode"] = ModeName(fn.brm.mode),
            !["mp3-vbr-quality"] = IF fn.brm.mode = "VBR" THEN Itoa(fn.brm.rate) ELSE <<>>,
            !["mp3-bit-rate"] = IF fn.brm.mode = "VBR" THEN <<>> ELSE Itoa(fn.brm.rate),
            !["mp3-use-quality"] = IF fn.useQuality THEN <<"t","r","u","e">>
                                   ELSE <<"f","a","l","s","e">>,
            !["mp3-quality"] = IF fn.useQuality THEN Itoa(fn.quality) ELSE <<>>]

\* encode.go:127: the caller validates the configuration ParseSink accepted
CallParseSinkAgain ==
    /\ cfg.cmd = "library"
    /\ vin.adapter = "form" /\ vout.err = NoErr
    /\ LET data == FormValues(vout.fn, vout.ext)
       IN /\ vin' = [adapter |-> "form again", data |-> data,
                     accepted |-> [fn |-> vout.fn, ext |-> vout.ext]]
          /\ vout' = Outcome(ParseSink(data), ParseSink(data).ext, 0 - 1)
    /\ UNCHANGED <<cfg, srv, job, resp, fs, handles, hist, nreq>>

\* input.go:107: a caller hands typed parameters to input.Mp3.Build
CallMp3Build ==
    /\ cfg.cmd = "library"
    /\ vin = NoInput
    /\ \E m \in ModeInputs, r \in RateInputs, c \in ChannelInputs,
          u \in BOOLEAN, q \in {0 - 1, 0, 9, MaxQualityInput} :
        /\ vin' = [adapter |-> "input.Mp3.Build", bitRateMode |-> m, bitRate |-> r,
                   channelMode |-> c, useQuality |-> u, quality |-> q]
        /\ vout' = Outcome(mp3Build(m, r, c, u, q), <<>>, 0 - 1)
    /\ UNCHANGED <<cfg, srv, job, resp, fs, handles, hist, nreq>>

\* the path arguments of a command: cobra.MinimumNArgs(1) (encode_mp3.go:23,
\* part_000:21), so one to MaxArgs paths, here all different
MaxArgs == 2
ArgLists == {[i \in 1..n |-> <<"p">> \o Itoa(i)] : n \in 1..MaxArgs}

\* what a command has done: the result of the validation, the exit status
\* (-1 while the process has not exited), the paths handed to filepath.Walk
\* and the lines of the log
CmdOutcome(r, args) ==
    [fn |-> r.fn, ext |-> <<>>, err |-> r.err,
     exit |-> IF r.err # NoErr THEN 1 ELSE 0 - 1,
     pc |-> IF r.err # NoErr THEN "exited" ELSE "walk",
     walked |-> <<>>,
     log |-> IF r.err # NoErr THEN <<r.err>> ELSE <<>>]

\* encode_mp3.go:24-41: the validation, log.Print and os.Exit(1) when it
\* fails, the walk function when it passes; the flags keep their defaults
\* (encode_mp3.go:55-58) unless given
DefaultChannelMode == 2
DefaultBitRate     == 4
DefaultQuality     == 5
DefaultBitRateMode == <<"v","b","r">>

encodeMp3Cmd ==
    /\ cfg.cmd = "encode mp3"
    /\ vin = NoInput
    /\ \E given \in [{"bitratemode", "bitrate", "channelmode", "quality"} -> BOOLEAN],
          args \in ArgLists :
       \E m \in IF given["bitratemode"] THEN ModeInputs ELSE {DefaultBitRateMode},
          r \in IF given["bitrate"] THEN CliRateInputs ELSE {DefaultBitRate},
          c \in IF given["channelmode"] THEN ChannelInputs ELSE {DefaultChannelMode},
          q \in IF given["quality"] THEN QualityInputs ELSE {DefaultQuality} :
        LET useQuality == given["quality"]
            r0 == mp3BuildSink(m, r, c, useQuality, q)
        IN /\ vin' = [adapter |-> "encode mp3", given |-> given, bitRateMode |-> m,
                      bitRate |-> r, channelMode |-> c, quality |-> q, args |-> args]
           /\ vout' = CmdOutcome(r0, args)
    /\ UNCHANGED <<cfg, srv, job, resp, fs, handles, hist, nreq>>

\* part_000:22-28: the same for wav (flag default part_000:41)
DefaultBitDepth == 24

encodeWavCmd ==
    /\ cfg.cmd = "encode wav"
    /\ vin = NoInput
    /\ \E given \in BOOLEAN, args \in ArgLists :
       \E b \in IF given THEN BitDepthInputs ELSE {DefaultBitDepth} :
        LET r0 == wavBuild(b)
        IN /\ vin' = [adapter |-> "encode wav", given |-> given, bitDepth |-> b,
                      args |-> args]
           /\ vout' = CmdOutcome(r0, args)
    /\ UNCHANGED <<cfg, srv, job, resp, fs, handles, hist, nreq>>

\* the error filepath.Walk returns for a path
WalkError(path) == Errorf("walk %v", <<path>>)

\* a loop over the paths that ends at the first path whose walk fails
WalkPathUntilError ==
    /\ vin.adapter \in {"encode mp3", "encode wav"}
    /\ vout.pc = "walk"
    /\ LET path == vin.args[Len(vout.walked) + 1]
       IN \E failed \in BOOLEAN :
            vout' = [vout EXCEPT
                        !.walked = Append(@, path),
                        !.log = IF failed THEN Append(@, WalkError(path)) ELSE @,
                        !.pc = IF failed \/ Len(vout.walked) + 1 = Len(vin.args)
                               THEN "returned" ELSE "walk"]
    /\ UNCHANGED <<vin, cfg, srv, job, resp, fs, handles, hist, nreq>>

\* encode_mp3.go:42-47, part_000:29-34: one turn of the loop over the path
\* arguments: filepath.Walk of the next path, its error logged; Run returns
\* after the last path
WalkPath ==
    /\ vin.adapter \in {"encode mp3", "encode wav"}
    /\ vout.pc = "walk"
    /\ LET path == vin.args[Len(vout.walked) + 1]
       IN \E failed \in BOOLEAN :
            vout' = [vout EXCEPT
                        !.walked = Append(@, path),
                        !.log = IF failed THEN Append(@, WalkError(path)) ELSE @,
                        !.pc = IF Len(vout.walked) + 1 = Len(vin.args)
                               THEN "returned" ELSE "walk"]
    /\ UNCHANGED <<vin, cfg, srv, job, resp, fs, handles, hist, nreq>>

(***************************************************************************)
(* The HTTP servers.  Requests arrive one after another on one connection. *)
(***************************************************************************)
MaxJobs      == 2   \* request slots
MaxRequests  == 2   \* requests received in one run
MaxBodySize  == 3   \* request bodies have 1..MaxBodySize bytes (or about maxInputSize)
MaxSizeLimit == 1   \* the smallest positive limit a form.Encode configures
MaxOutSize   == 2   \* the pipe writes 0..MaxOutSize bytes
MaxTempNames == 2   \* names ioutil.TempFile draws from

Jobs == 1..MaxJobs

\* part_002:32
maxInputSize == 2 * 1024 * 1024

\* encode_http.go:67 form.Encode{} and a form.Encode with every limit set
EncodeZero    == [WavMaxSize |-> 0, Mp3MaxSize |-> 0, FlacMaxSize |-> 0]
EncodeLimited == [WavMaxSize |-> MaxSizeLimit, Mp3MaxSize |-> MaxSizeLimit + 1,
                  FlacMaxSize |-> MaxSizeLimit + 2]

Methods   == {"GET", "POST", "PUT"}
Paths     == {<<"/">> \o ExtWav, <<"/">> \o ExtMp3, <<"/">> \o ExtFlac, <<"/">> \o ExtWave,
              <<"/",".","W","A","V">>, <<"/">>}
BodySizes == (1..MaxBodySize) \cup {maxInputSize, maxInputSize + 1}
TrackWav  == <<"t","r","a","c","k">> \o ExtWav
FileNames == {TrackWav, <<"A",".","W","A","V">>, <<"s">> \o ExtMp3, <<"n",".","t","x","t">>}
TempNames == {Itoa(i) : i \in 1..MaxTempNames}

Form(format, kv) == [k \in FormKeys |-> IF k = "format" THEN format
                                        ELSE IF k \in DOMAIN kv THEN kv[k] ELSE <<>>]

\* the forms posted to the servers
FormVbr4 ==
    Form(ExtMp3, ("mp3-channel-mode" :> Itoa(2)) @@ ("mp3-bit-rate-mode" :> VBR)
                 @@ ("mp3-vbr-quality" :> Itoa(4)))
FormCbrNoRate ==
    Form(ExtMp3, ("mp3-channel-mode" :> Itoa(2)) @@ ("mp3-bit-rate-mode" :> CBR))
FormAbrQuality ==
    Form(ExtMp3, ("mp3-channel-mode" :> Itoa(1)) @@ ("mp3-bit-rate-mode" :> ABR)
                 @@ ("mp3-bit-rate" :> Itoa(128))
                 @@ ("mp3-use-quality" :> <<"t","r","u","e">>) @@ ("mp3-quality" :> Itoa(5)))
FormLowerVbr ==
    Form(ExtMp3, ("mp3-channel-mode" :> Itoa(2)) @@ ("mp3-bit-rate-mode" :> <<"v","b","r">>)
                 @@ ("mp3-vbr-quality" :> Itoa(4)))
FormWav(bitDepth) == Form(ExtWav, "wav-bit-depth" :> bitDepth)

HandlerForms ==
    {FormVbr4, FormCbrNoRate, FormAbrQuality, FormLowerVbr,
     FormWav(Itoa(16)), FormWav(Itoa(11)), FormWav(<<>>),
     Form(ExtFlac, <<>>), Form(<<>>, <<>>)}

(***************************************************************************)
(* State of a request                                                      *)
(***************************************************************************)
NoRequest == [method |-> "", path |-> <<>>, bodySize |-> 0, wellFormed |-> FALSE,
              hasFile |-> FALSE, filename |-> <<>>, form |-> EmptyForm]

\* the requests a client sends: a POST carries a body, which is a multipart
\* form with its fields and at most one file, or is malformed
Requests(handler) ==
    LET paths == IF handler = "Convert" THEN Paths ELSE {<<"/">>}
    IN {[NoRequest EXCEPT !.method = m] : m \in Methods \ {"POST"}}
       \cup {[NoRequest EXCEPT !.method = "POST", !.path = p, !.bodySize = n] :
                p \in paths, n \in BodySizes}
       \cup {[method |-> "POST", path |-> p, bodySize |-> n, wellFormed |-> TRUE,
              hasFile |-> name # <<>>, filename |-> name, form |-> f] :
                p \in paths, n \in BodySizes, name \in FileNames \cup {<<>>},
                f \in IF handler = "Convert" THEN HandlerForms
                      ELSE {Form(x, <<>>) : x \in {ExtWav, ExtMp3, ExtFlac, <<>>}}}

IdleJob == [pc |-> "idle", handler |-> "", req |-> NoRequest, maxSize |-> 0 - 1,
            pump |-> "",
            fn |-> NilFn, ext |-> <<>>, tempFile |-> 0, tmpFileName |-> <<>>,
            sink |-> "", size |-> 0, defers |-> <<>>]

NoHeaders == [disposition |-> <<>>, contentType |-> "", contentLength |-> <<>>]
IdleResp  == [status |-> 0, headers |-> NoHeaders, body |-> <<>>]

\* http.Error: the status and the headers count only when none was written before
HttpError(w, err, code) ==
    [status  |-> IF w.status = 0 THEN code ELSE w.status,
     headers |-> IF w.status = 0
                 THEN [w.headers EXCEPT !.contentType = "text/plain; charset=utf-8"]
                 ELSE w.headers,
     body    |-> Append(w.body, [kind |-> "error", code |-> code, err |-> err, bytes |-> 0])]

\* w.Write: the first write sends status 200
Write(w, kind, n) ==
    [w EXCEPT !.status = IF @ = 0 THEN 200 ELSE @,
              !.body = Append(@, [kind |-> kind, code |-> 0, err |-> NoErr, bytes |-> n])]

\* w.WriteHeader
WriteHeader(w, code) == [w EXCEPT !.status = IF @ = 0 THEN code ELSE @]

\* an error of the environment (the operating system, the pipe), by its source
EnvErr(what) == Errorf("%v", <<<<what>>>>)

\* a return statement: the deferred calls run before the handler is done
Return(r) == [r EXCEPT !.pc = IF r.defers = <<>> THEN "done" ELSE "deferred"]

Exists(name) == \E f \in fs : f.name = name
SizeOf(name) == (CHOOSE f \in fs : f.name = name).size
WithFile(name, size) == {f \in fs : f.name # name} \cup {[name |-> name, size |-> size]}
WithoutFile(name) == {f \in fs : f.name # name}

IsOpen(h) == h \in 1..Len(handles) /\ handles[h].open

\* mime.TypeByExtension for the extensions of the output formats
TypeByExtension(ext) ==
    CASE ext = ExtMp3 -> "audio/mpeg"
      [] ext = ExtWav -> "audio/x-wav"
      [] OTHER -> ""

\* input.go:392 outFileName
outFileName(prefix, idx, ext) == prefix \o <<"_">> \o Itoa(idx) \o ext

(***************************************************************************)
(* form.Encode and file.Pump as the handler calls them                     *)
(***************************************************************************)
\* encode.go:111 Encode.InputMaxSize
InputMaxSize(c, url) ==
    LET ext == ToLower(PathBase(url))
    IN CASE ext = ExtMp3  -> Val(c.Mp3MaxSize)
         [] ext = ExtWav  -> Val(c.WavMaxSize)
         [] ext = ExtFlac -> Val(c.FlacMaxSize)
         [] OTHER -> ValErr(Errorf("Format %s not supported", <<ext>>))

\* file.go:117 hasExtension
hasExtension(ext, exts) == ext \in exts

\* file.go:95 Pump: the pump's format and the error
Pump(fileName) ==
    LET ext == ToLower(FilepathExt(fileName))
    IN CASE hasExtension(ext, WavExtensions)  -> [pump |-> "wav", err |-> NoErr]
         [] hasExtension(ext, Mp3Extensions)  -> [pump |-> "mp3", err |-> NoErr]
         [] hasExtension(ext, FlacExtensions) -> [pump |-> "flac", err |-> NoErr]
         [] OTHER -> [pump |-> "",
                      err |-> Errorf("File has unsupported extension: %v", <<fileName>>)]

\* http.MaxBytesReader(w, r.Body, limit) under r.ParseMultipartForm: reading
\* more than limit bytes fails, and so does a body that is no multipart form
ParseMultipartForm(bodySize, wellFormed, limit) ==
    IF bodySize > limit THEN EnvErr("http: request body too large")
    ELSE IF ~wellFormed THEN EnvErr("multipart: malformed body")
    ELSE NoErr

(***************************************************************************)
(* controller.Convert (input.go:287-370)                                   *)
(***************************************************************************)
Step(j, r, w, events) ==
    /\ job'  = [job  EXCEPT ![j] = r]
    /\ resp' = [resp EXCEPT ![j] = w]
    /\ hist' = [hist EXCEPT ![j] = @ \o events]

\* the server hands a request to the handler
Receive(j) ==
    /\ cfg.cmd \in {"encode http", "main", "convert"}
    /\ nreq < MaxRequests
    /\ j = (nreq % MaxJobs) + 1
    /\ \A k \in Jobs : job[k].pc = "idle"
    /\ LET handler == IF cfg.cmd = "main" THEN "convertHandler" ELSE "Convert"
       IN \E r \in Requests(handler) :
            job' = [job EXCEPT ![j] = [IdleJob EXCEPT !.pc = "dispatch", !.handler = handler,
                                                      !.req = r]]
    /\ nreq' = nreq + 1
    /\ UNCHANGED <<vin, vout, cfg, srv, resp, fs, handles, hist>>

\* the handler has returned: the server ends the response and is ready for
\* the next request of the connection
Served(j) ==
    /\ job[j].pc = "done"
    /\ job' = [job EXCEPT ![j] = IdleJob]
    /\ resp' = [resp EXCEPT ![j] = IdleResp]
    /\ hist' = [hist EXCEPT ![j] = <<>>]
    /\ handles' = SelectSeq(handles, LAMBDA h : h.open)
    /\ UNCHANGED <<vin, vout, cfg, srv, fs, nreq>>

AtConvert(j, pc) == job[j].handler = "Convert" /\ job[j].pc = pc

\* input.go:291-295
ConvertGet(j) ==
    /\ AtConvert(j, "dispatch") /\ job[j].req.method = "GET"
    /\ \E writeFails \in BOOLEAN :
        Step(j, Return(job[j]),
             IF writeFails THEN HttpError(resp[j], EnvErr("write"), 500)
             ELSE Write(resp[j], "form", 1),
             <<"Write">>)
    /\ UNCHANGED <<vin, vout, cfg, srv, fs, handles, nreq>>

\* a handler whose default case goes on as a POST does
ConvertDefaultAsPost(j) ==
    /\ AtConvert(j, "dispatch") /\ job[j].req.method \notin {"GET", "POST"}
    /\ LET m == InputMaxSize(cfg.form, job[j].req.path)
            r == job[j]
        IN IF m.err # NoErr
           THEN Step(j, Return(r), HttpError(resp[j], m.err, 400), <<"InputMaxSize">>)
           ELSE Step(j, [r EXCEPT !.pc = "parse", !.maxSize = m.val], resp[j],
                     <<"InputMaxSize", "MaxBytesReader">>)
    /\ UNCHANGED <<vin, vout, cfg, srv, fs, handles, nreq>>

\* input.go:366-367
ConvertDefault(j) ==
    /\ AtConvert(j, "dispatch") /\ job[j].req.method \notin {"GET", "POST"}
    /\ Step(j, Return(job[j]), WriteHeader(resp[j], 405), <<"WriteHeader">>)
    /\ UNCHANGED <<vin, vout, cfg, srv, fs, handles, nreq>>

\* input.go:298-299, 305-308
ConvertInputMaxSize(j) ==
    /\ AtConvert(j, "dispatch") /\ job[j].req.method = "POST"
    /\ LET m == InputMaxSize(cfg.form, job[j].req.path)
            r == job[j]
        IN IF m.err # NoErr
           THEN Step(j, Return(r), HttpError(resp[j], m.err, 400), <<"InputMaxSize">>)
           ELSE Step(j, [r EXCEPT !.pc = "parse", !.maxSize = m.val], resp[j],
                     <<"InputMaxSize", "MaxBytesReader">>)
    /\ UNCHANGED <<vin, vout, cfg, srv, fs, handles, nreq>>

\* a handler that parses the body without the ceiling
ConvertParseMultipartFormUnbounded(j) ==
    /\ AtConvert(j, "parse")
    /\ LET err == ParseMultipartForm(job[j].req.bodySize, job[j].req.wellFormed,
                                     job[j].req.bodySize)
            r == job[j]
        IN IF err # NoErr
           THEN Step(j, Return(r), HttpError(resp[j], err, 400), <<"ParseMultipartForm">>)
           ELSE Step(j, [r EXCEPT !.pc = "formfile"], resp[j], <<"ParseMultipartForm">>)
    /\ UNCHANGED <<vin, vout, cfg, srv, fs, handles, nreq>>

\* input.go:301-304
ConvertParseMultipartForm(j) ==
    /\ AtConvert(j, "parse")
    /\ LET err == ParseMultipartForm(job[j].req.bodySize, job[j].req.wellFormed, job[j].maxSize)
            r == job[j]
        IN IF err # NoErr
           THEN Step(j, Return(r), HttpError(resp[j], err, 400), <<"ParseMultipartForm">>)
           ELSE Step(j, [r EXCEPT !.pc = "formfile"], resp[j], <<"ParseMultipartForm">>)
    /\ UNCHANGED <<vin, vout, cfg, srv, fs, handles, nreq>>

\* input.go:310-315
ConvertFormFile(j) ==
    /\ AtConvert(j, "formfile")
    /\ IF ~job[j].req.hasFile
       THEN Step(j, Return(job[j]), HttpError(resp[j], EnvErr("http: no such file"), 400),
                 <<"FormFile">>)
       ELSE Step(j, [job[j] EXCEPT !.pc = "pump", !.defers = <<"f.Close">> \o @],
                 resp[j], <<"FormFile">>)
    /\ UNCHANGED <<vin, vout, cfg, srv, fs, handles, nreq>>

\* input.go:318-322
ConvertFilePump(j) ==
    /\ AtConvert(j, "pump")
    /\ LET p == Pump(job[j].req.filename)
       IN IF p.err # NoErr
          THEN Step(j, Return(job[j]), HttpError(resp[j], p.err, 400), <<"FilePump">>)
          ELSE Step(j, [job[j] EXCEPT !.pc = "sink", !.pump = p.pump], resp[j], <<"FilePump">>)
    /\ UNCHANGED <<vin, vout, cfg, srv, fs, handles, nreq>>

\* a handler that reports the error of ParseSink and goes on
ConvertParseSinkGoesOn(j) ==
    /\ AtConvert(j, "sink")
    /\ LET s == ParseSink(job[j].req.form)
            r == [job[j] EXCEPT !.pc = "tempfile", !.fn = s.fn, !.ext = s.ext]
        IN IF s.err # NoErr
           THEN Step(j, r, HttpError(resp[j], s.err, 400), <<"ParseSink">>)
           ELSE Step(j, r, resp[j], <<"ParseSink">>)
    /\ UNCHANGED <<vin, vout, cfg, srv, fs, handles, nreq>>

\* input.go:325-329
ConvertParseSink(j) ==
    /\ AtConvert(j, "sink")
    /\ LET s == ParseSink(job[j].req.form)
            r == job[j]
        IN IF s.err # NoErr
           THEN Step(j, Return(r), HttpError(resp[j], s.err, 400), <<"ParseSink">>)
           ELSE Step(j, [r EXCEPT !.pc = "tempfile", !.fn = s.fn, !.ext = s.ext], resp[j],
                     <<"ParseSink">>)
    /\ UNCHANGED <<vin, vout, cfg, srv, fs, handles, nreq>>

\* input.go:332-337: ioutil.TempFile creates a file under a name not in use
\* (the names are alike, so the first one not in use stands for any of them)
ConvertTempFile(j) ==
    /\ AtConvert(j, "tempfile")
    /\ \/ /\ Step(j, Return(job[j]), HttpError(resp[j], EnvErr("tempfile"), 500),
                  <<"TempFile">>)
          /\ UNCHANGED <<fs, handles>>
       \/ \E name \in TempNames :
            /\ ~Exists(name)
            /\ \A other \in TempNames : AtoiValue(other) < AtoiValue(name) => Exists(other)
            /\ fs' = WithFile(name, 0)
            /\ handles' = Append(handles, [name |-> name, open |-> TRUE, pos |-> 0, owner |-> j])
            /\ Step(j, [job[j] EXCEPT !.pc = "convert", !.tempFile = Len(handles) + 1,
                                      !.tmpFileName = name, !.defers = <<"cleanUp">> \o @],
                    resp[j], <<"TempFile">>)
    /\ UNCHANGED <<vin, vout, cfg, srv, nreq>>

\* input.go:373-389 convert: pipe.New and pipe.Wait(Run()); the pipe writes
\* to the sink's writer whether it ends well or not
convert(j, r, outcome, n) ==
    /\ fs' = WithFile(handles[r.tempFile].name, n)
    /\ handles' = [handles EXCEPT ![r.tempFile].pos = n]
    /\ CASE outcome = "build" ->
              Step(j, Return(r),
                   HttpError(resp[j], Errorf("Failed to build pipe: %v", <<<<"pipe.New">>>>), 400),
                   <<"buildFn", "pipe.New">>)
         [] outcome = "run" ->
              Step(j, Return(r),
                   HttpError(resp[j], Errorf("Failed to execute pipe: %v", <<<<"pipe.Wait">>>>), 400),
                   <<"buildFn", "pipe.New", "pipe.Run">>)
         [] OTHER ->
              Step(j, [r EXCEPT !.pc = "seek"], resp[j], <<"buildFn", "pipe.New", "pipe.Run">>)

\* input.go:340-343
ConvertRun(j) ==
    /\ AtConvert(j, "convert")
    /\ \E outcome \in {"build", "run", "ok"}, n \in 0..MaxOutSize :
        /\ (outcome = "build" => n = 0)
        /\ convert(j, [job[j] EXCEPT !.sink = job[j].fn.format], outcome, n)
    /\ UNCHANGED <<vin, vout, cfg, srv, nreq>>

\* the handler goes on without the rewind: the file keeps the offset the
\* pipe left it at
ConvertSeekKeepsOffset(j) ==
    /\ AtConvert(j, "seek")
    /\ \/ /\ Step(j, Return(job[j]),
                  HttpError(resp[j], Errorf("Failed to reset temp file: %v", <<<<"seek">>>>), 500),
                  <<"Seek">>)
          /\ UNCHANGED handles
       \/ /\ UNCHANGED handles
          /\ Step(j, [job[j] EXCEPT !.pc = "stat"], resp[j], <<"Seek">>)
    /\ UNCHANGED <<vin, vout, cfg, srv, fs, nreq>>

\* input.go:345-349
ConvertSeek(j) ==
    /\ AtConvert(j, "seek")
    /\ \/ /\ Step(j, Return(job[j]),
                  HttpError(resp[j], Errorf("Failed to reset temp file: %v", <<<<"seek">>>>), 500),
                  <<"Seek">>)
          /\ UNCHANGED handles
       \/ /\ handles' = [handles EXCEPT ![job[j].tempFile].pos = 0]
          /\ Step(j, [job[j] EXCEPT !.pc = "stat"], resp[j], <<"Seek">>)
    /\ UNCHANGED <<vin, vout, cfg, srv, fs, nreq>>

\* input.go:351-356
ConvertStat(j) ==
    /\ AtConvert(j, "stat")
    /\ \/ Step(j, Return(job[j]),
               HttpError(resp[j], Errorf("Failed to get file stats: %v", <<<<"stat">>>>), 500),
               <<"Stat">>)
       \/ Step(j, [job[j] EXCEPT !.pc = "send", !.size = SizeOf(handles[job[j].tempFile].name)],
               resp[j], <<"Stat">>)
    /\ UNCHANGED <<vin, vout, cfg, srv, fs, handles, nreq>>

\* input.go:358-360: the headers of the result
ResultHeaders(w, fileName, ext, size) ==
    IF w.status # 0 THEN w
    ELSE [w EXCEPT !.headers = [disposition   |-> fileName,
                                contentType   |-> TypeByExtension(ext),
                                contentLength |-> Itoa(size)]]

\* input.go:358-365: io.Copy sends the file from its position; it fails
\* before the first write (reading the file) or after one (the client left)
ConvertSend(j) ==
    /\ AtConvert(j, "send")
    /\ LET h == handles[job[j].tempFile]
           left == SizeOf(h.name) - h.pos
           w == ResultHeaders(resp[j], outFileName(<<"r","e","s","u","l","t">>, 1, job[j].ext),
                              job[j].ext, job[j].size)
       IN \/ /\ handles' = [handles EXCEPT ![job[j].tempFile].pos = SizeOf(h.name)]
             /\ Step(j, Return(job[j]), Write(w, "file", left), <<"Header", "Copy">>)
          \/ /\ UNCHANGED handles
             /\ Step(j, Return(job[j]),
                     HttpError(w, Errorf("Failed to transfer file: %v", <<<<"read">>>>), 500),
                     <<"Header", "Copy">>)
          \/ /\ left > 0
             /\ UNCHANGED handles
             /\ Step(j, Return(job[j]),
                     HttpError(Write(w, "file", 0),
                               Errorf("Failed to transfer file: %v", <<<<"write">>>>), 500),
                     <<"Header", "Copy">>)
    /\ UNCHANGED <<vin, vout, cfg, srv, fs, nreq>>

\* input.go:397-406 cleanUp: Close, then Remove, whatever Close returned
cleanUp(j, r, closeFails, removeFails) ==
    /\ handles' = [handles EXCEPT ![r.tempFile].open = FALSE]
    /\ fs' = IF removeFails THEN fs ELSE WithoutFile(handles[r.tempFile].name)
    /\ Step(j, r, resp[j],
            <<"cleanUp", "Close">>
            \o (IF closeFails \/ ~IsOpen(r.tempFile)
                THEN <<"log: Failed to close temp file">> ELSE <<>>)
            \o <<"Remove">>
            \o (IF removeFails THEN <<"log: Failed to delete temp file">> ELSE <<>>))

\* input.go:337: the deferred cleanUp(tempFile)
DeferredCleanUp(j) ==
    /\ job[j].pc = "deferred" /\ Head(job[j].defers) = "cleanUp"
    /\ \E closeFails \in BOOLEAN, removeFails \in BOOLEAN :
        cleanUp(j, Return([job[j] EXCEPT !.defers = Tail(@)]), closeFails, removeFails)
    /\ UNCHANGED <<vin, vout, cfg, srv, nreq>>

\* input.go:315, part_002:59: the deferred f.Close() of the uploaded file
DeferredFileClose(j) ==
    /\ job[j].pc = "deferred" /\ Head(job[j].defers) = "f.Close"
    /\ Step(j, Return([job[j] EXCEPT !.defers = Tail(@)]), resp[j], <<"f.Close">>)
    /\ UNCHANGED <<vin, vout, cfg, srv, fs, handles, nreq>>

\* input.go:289-369 Convert
Convert(j) ==
    \/ ConvertGet(j) \/ ConvertDefault(j) \/ ConvertInputMaxSize(j)
    \/ ConvertParseMultipartForm(j) \/ ConvertFormFile(j) \/ ConvertFilePump(j)
    \/ ConvertParseSink(j) \/ ConvertTempFile(j) \/ ConvertRun(j) \/ ConvertSeek(j)
    \/ ConvertStat(j) \/ ConvertSend(j)

(***************************************************************************)
(* convertHandler (part_002:41-137)                                        *)
(***************************************************************************)
AtHandler(j, pc) == job[j].handler = "convertHandler" /\ job[j].pc = pc

\* part_002:33
tmpPath == <<"t","m","p">>

\* part_002:44-45
HandlerGet(j) ==
    /\ AtHandler(j, "dispatch") /\ job[j].req.method = "GET"
    /\ Step(j, Return(job[j]), Write(resp[j], "form", 1), <<"Execute">>)
    /\ UNCHANGED <<vin, vout, cfg, srv, fs, handles, nreq>>

\* part_002:133-134
HandlerDefault(j) ==
    /\ AtHandler(j, "dispatch") /\ job[j].req.method \notin {"GET", "POST"}
    /\ Step(j, Return(job[j]), WriteHeader(resp[j], 405), <<"WriteHeader">>)
    /\ UNCHANGED <<vin, vout, cfg, srv, fs, handles, nreq>>

\* part_002:48-52
HandlerParseMultipartForm(j) ==
    /\ AtHandler(j, "dispatch") /\ job[j].req.method = "POST"
    /\ LET err == ParseMultipartForm(job[j].req.bodySize, job[j].req.wellFormed, maxInputSize)
            r == [job[j] EXCEPT !.maxSize = maxInputSize]
        IN IF err # NoErr
           THEN Step(j, Return(r), HttpError(resp[j], Errorf("File too big", <<>>), 400),
                     <<"MaxBytesReader", "ParseMultipartForm">>)
           ELSE Step(j, [r EXCEPT !.pc = "formfile"], resp[j],
                     <<"MaxBytesReader", "ParseMultipartForm">>)
    /\ UNCHANGED <<vin, vout, cfg, srv, fs, handles, nreq>>

\* part_002:54-59
HandlerFormFile(j) ==
    /\ AtHandler(j, "formfile")
    /\ IF ~job[j].req.hasFile
       THEN Step(j, Return(job[j]),
                 HttpError(resp[j], Errorf("Invalid file: %v", <<<<"http: no such file">>>>), 400),
                 <<"FormFile">>)
       ELSE Step(j, [job[j] EXCEPT !.pc = "pump", !.defers = <<"f.Close">> \o @],
                 resp[j], <<"FormFile">>)
    /\ UNCHANGED <<vin, vout, cfg, srv, fs, handles, nreq>>

\* part_002:62-72: the extension is compared as the client wrote it
HandlerPump(j) ==
    /\ AtHandler(j, "pump")
    /\ LET inFormat == FilepathExt(job[j].req.filename)
       IN CASE inFormat = ExtWav ->
                 Step(j, [job[j] EXCEPT !.pc = "sink", !.pump = "wav"], resp[j], <<"NewPump">>)
            [] inFormat = ExtMp3 ->
                 Step(j, [job[j] EXCEPT !.pc = "sink", !.pump = "mp3"], resp[j], <<"NewPump">>)
            [] OTHER ->
                 Step(j, Return(job[j]),
                      HttpError(resp[j], Errorf("Invalid input file format: %v", <<inFormat>>), 400),
                      <<>>)
    /\ UNCHANGED <<vin, vout, cfg, srv, fs, handles, nreq>>

\* part_002:75-90: os.Create makes or truncates tmp/<filename>; when it fails
\* the handler writes the error and goes on with a nil file
HandlerSink(j) ==
    /\ AtHandler(j, "sink")
    /\ LET outFormat == Get(job[j].req.form, "format")
            name == tmpPath \o <<"/">> \o job[j].req.filename
            r == [job[j] EXCEPT !.ext = outFormat, !.tmpFileName = name]
        IN CASE outFormat = ExtWav ->
                  \/ /\ fs' = WithFile(name, 0)
                     /\ handles' = Append(handles, [name |-> name, open |-> TRUE, pos |-> 0,
                                                    owner |-> j])
                     /\ Step(j, [r EXCEPT !.pc = "pipe.New", !.tempFile = Len(handles) + 1,
                                          !.sink = "wav"],
                             resp[j], <<"Create", "NewSink">>)
                  \/ /\ UNCHANGED <<fs, handles>>
                     /\ Step(j, [r EXCEPT !.pc = "pipe.New", !.sink = "wav"],
                             HttpError(resp[j],
                                       Errorf("Error creating temp file: %v", <<<<"create">>>>), 500),
                             <<"Create", "NewSink">>)
             [] outFormat = ExtMp3 ->
                  /\ UNCHANGED <<fs, handles>>
                  /\ Step(j, [r EXCEPT !.pc = "pipe.New"], resp[j], <<>>)
             [] OTHER ->
                  /\ UNCHANGED <<fs, handles>>
                  /\ Step(j, Return(r),
                          HttpError(resp[j],
                                    Errorf("Invalid output file format: %v", <<outFormat>>), 400),
                          <<>>)
    /\ UNCHANGED <<vin, vout, cfg, srv, nreq>>

\* part_002:93-97: pipe.New; the pipe library decides what a nil sink gives
HandlerPipeNew(j) ==
    /\ AtHandler(j, "pipe.New")
    /\ \/ Step(j, Return(job[j]),
               HttpError(resp[j], Errorf("Failed to build pipe: %v", <<<<"pipe.New">>>>), 500),
               <<"pipe.New">>)
       \/ Step(j, [job[j] EXCEPT !.pc = "pipe.Run"], resp[j], <<"pipe.New">>)
    /\ UNCHANGED <<vin, vout, cfg, srv, fs, handles, nreq>>

\* part_002:100-104: the run writes to the temp file when there is one
HandlerPipeRun(j) ==
    /\ AtHandler(j, "pipe.Run")
    /\ \E ok \in BOOLEAN, n \in 0..MaxOutSize :
        /\ IF IsOpen(job[j].tempFile)
           THEN /\ fs' = WithFile(job[j].tmpFileName, n)
                /\ handles' = [handles EXCEPT ![job[j].tempFile].pos = n]
           ELSE /\ n = 0
                /\ UNCHANGED <<fs, handles>>
        /\ IF ok
           THEN Step(j, [job[j] EXCEPT !.pc = "close"], resp[j], <<"pipe.Run">>)
           ELSE Step(j, Return(job[j]),
                     HttpError(resp[j], Errorf("Failed to build pipe: %v", <<<<"pipe.Wait">>>>), 500),
                     <<"pipe.Run">>)
    /\ UNCHANGED <<vin, vout, cfg, srv, nreq>>

\* part_002:105-109: Close of a nil or closed file fails
HandlerClose(j) ==
    /\ AtHandler(j, "close")
    /\ IF IsOpen(job[j].tempFile)
       THEN /\ handles' = [handles EXCEPT ![job[j].tempFile].open = FALSE]
            /\ Step(j, [job[j] EXCEPT !.pc = "open"], resp[j], <<"Close">>)
       ELSE /\ UNCHANGED handles
            /\ Step(j, Return(job[j]),
                    HttpError(resp[j], Errorf("Failed to close temp file: %v", <<<<"close">>>>), 500),
                    <<"Close">>)
    /\ UNCHANGED <<vin, vout, cfg, srv, fs, nreq>>

\* part_002:111-115
HandlerOpen(j) ==
    /\ AtHandler(j, "open")
    /\ \/ /\ Exists(job[j].tmpFileName)
          /\ handles' = Append(handles, [name |-> job[j].tmpFileName, open |-> TRUE, pos |-> 0,
                                         owner |-> j])
          /\ Step(j, [job[j] EXCEPT !.pc = "stat", !.tempFile = Len(handles) + 1], resp[j],
                  <<"Open">>)
       \/ /\ UNCHANGED handles
          /\ Step(j, Return(job[j]),
                  HttpError(resp[j], Errorf("Failed to re-open temp file: %v", <<<<"open">>>>), 500),
                  <<"Open">>)
    /\ UNCHANGED <<vin, vout, cfg, srv, fs, nreq>>

\* part_002:116-121
HandlerStat(j) ==
    /\ AtHandler(j, "stat")
    /\ \/ Step(j, Return(job[j]),
               HttpError(resp[j], Errorf("Failed to get file stats: %v", <<<<"stat">>>>), 500),
               <<"Stat">>)
       \/ Step(j, [job[j] EXCEPT !.pc = "send", !.size = SizeOf(job[j].tmpFileName)],
               resp[j], <<"Stat">>)
    /\ UNCHANGED <<vin, vout, cfg, srv, fs, handles, nreq>>

\* part_002:123-132: the error of io.Copy is dropped; an error of Close is
\* written to the client after the file
HandlerSend(j) ==
    /\ AtHandler(j, "send")
    /\ LET h == handles[job[j].tempFile]
           left == SizeOf(h.name) - h.pos
           w == ResultHeaders(resp[j], job[j].tmpFileName, job[j].ext, job[j].size)
       IN /\ handles' = [handles EXCEPT ![job[j].tempFile].open = FALSE]
          /\ \E copied \in BOOLEAN, closed \in BOOLEAN :
               LET sent == IF copied THEN Write(w, "file", left) ELSE w
               IN Step(j, Return(job[j]),
                       IF closed THEN sent
                       ELSE HttpError(sent, Errorf("Failed to close temp file: %v",
                                                   <<<<"close">>>>), 500),
                       <<"Header", "Copy", "Close">>)
    /\ UNCHANGED <<vin, vout, cfg, srv, fs, nreq>>

\* part_002:42-136 convertHandler
convertHandler(j) ==
    \/ HandlerGet(j) \/ HandlerDefault(j) \/ HandlerParseMultipartForm(j)
    \/ HandlerFormFile(j) \/ HandlerPump(j) \/ HandlerSink(j) \/ HandlerPipeNew(j)
    \/ HandlerPipeRun(j) \/ HandlerClose(j) \/ HandlerOpen(j) \/ HandlerStat(j)
    \/ HandlerSend(j)

(***************************************************************************)
(* The server process: serve (encode_http.go:41-81) and the main of the    *)
(* old server (part_002:139-146).  srv.main is the position of serve,      *)
(* srv.sig the position of the goroutine that waits for the signal.        *)
(***************************************************************************)
\* a server that is up, with no signal on its way
Serving == [main |-> "serving", sig |-> "blocked", dir |-> TRUE, listening |-> TRUE,
            shut |-> FALSE, interrupt |-> "open"]
\* the process before serve has done anything
Starting == [main |-> "tempdir", sig |-> "notify", dir |-> FALSE, listening |-> FALSE,
             shut |-> FALSE, interrupt |-> "open"]
\* the old server before http.ListenAndServe: it installs no signal handler
StartingMain == [Starting EXCEPT !.main = "listen", !.sig = "none"]

UsesServe == cfg.cmd \in {"encode http", "convert"}

\* the requests that are with a handler that has not returned
InFlight == {j \in Jobs : job[j].pc \notin {"idle", "done"}}

\* encode_http.go:43-46 ioutil.TempDir; log.Fatal ends the process
ServeTempDir ==
    /\ UsesServe /\ srv.main = "tempdir"
    /\ \/ srv' = [srv EXCEPT !.main = "listen", !.dir = TRUE]
       \/ srv' = [srv EXCEPT !.main = "fatal"]
    /\ UNCHANGED <<vin, vout, cfg, job, resp, fs, handles, hist, nreq>>

\* encode_http.go:50-54 the goroutine registers for SIGINT and SIGTERM
ServeNotify ==
    /\ UsesServe /\ srv.sig = "notify" /\ srv.main \notin {"tempdir", "fatal"}
    /\ srv' = [srv EXCEPT !.sig = "blocked"]
    /\ UNCHANGED <<vin, vout, cfg, job, resp, fs, handles, hist, nreq>>

\* encode_http.go:57 <-sigint: the signal arrives
ServeSignal ==
    /\ UsesServe /\ srv.sig = "blocked"
    /\ srv' = [srv EXCEPT !.sig = "shutdown"]
    /\ UNCHANGED <<vin, vout, cfg, job, resp, fs, handles, hist, nreq>>

\* encode_http.go:60 server.Shutdown, first part: the listeners are closed
ServeShutdown ==
    /\ UsesServe /\ srv.sig = "shutdown"
    /\ srv' = [srv EXCEPT !.sig = "draining", !.shut = TRUE, !.listening = FALSE]
    /\ UNCHANGED <<vin, vout, cfg, job, resp, fs, handles, hist, nreq>>

\* server.Shutdown with a context that has expired: it returns at once
ServeShutdownReturnsAtOnce ==
    /\ UsesServe /\ srv.sig = "draining"
    /\ srv' = [srv EXCEPT !.sig = "close"]
    /\ UNCHANGED <<vin, vout, cfg, job, resp, fs, handles, hist, nreq>>

\* encode_http.go:60-62 server.Shutdown(context.Background()), second part:
\* it returns when no connection has a handler running
ServeShutdownReturns ==
    /\ UsesServe /\ srv.sig = "draining"
    /\ InFlight = {}
    /\ srv' = [srv EXCEPT !.sig = "close"]
    /\ UNCHANGED <<vin, vout, cfg, job, resp, fs, handles, hist, nreq>>

\* encode_http.go:63 close(interrupt)
ServeCloseInterrupt ==
    /\ UsesServe /\ srv.sig = "close"
    /\ srv' = [srv EXCEPT !.sig = "end", !.interrupt = "closed"]
    /\ UNCHANGED <<vin, vout, cfg, job, resp, fs, handles, hist, nreq>>

\* encode_http.go:67-71 http.Handle and server.ListenAndServe: it listens,
\* or returns at once (the address is taken, or Shutdown was called before)
ServeListen ==
    /\ UsesServe /\ srv.main = "listen"
    /\ \/ /\ ~srv.shut
          /\ srv' = [srv EXCEPT !.main = "serving", !.listening = TRUE]
       \/ srv' = [srv EXCEPT !.main = "wait"]
    /\ UNCHANGED <<vin, vout, cfg, job, resp, fs, handles, hist, nreq>>

\* encode_http.go:69 ListenAndServe returns http.ErrServerClosed after Shutdown
ServeClosed ==
    /\ UsesServe /\ srv.main = "serving" /\ srv.shut
    /\ srv' = [srv EXCEPT !.main = "wait"]
    /\ UNCHANGED <<vin, vout, cfg, job, resp, fs, handles, hist, nreq>>

\* encode_http.go:74-80 <-interrupt, os.RemoveAll(dir), return: the process ends
ServeRemoveAll ==
    /\ UsesServe /\ srv.main = "wait" /\ srv.interrupt = "closed"
    /\ \/ /\ srv' = [srv EXCEPT !.main = "returned", !.dir = FALSE]
          /\ fs' = {}
       \/ /\ srv' = [srv EXCEPT !.main = "returned"]
          /\ fs' = fs
    /\ UNCHANGED <<vin, vout, cfg, job, resp, handles, hist, nreq>>

\* encode_http.go:41-81 serve
serve ==
    \/ ServeTempDir \/ ServeNotify \/ ServeSignal \/ ServeShutdown \/ ServeShutdownReturns
    \/ ServeCloseInterrupt \/ ServeListen \/ ServeClosed \/ ServeRemoveAll

\* part_002:139-146 main: http.ListenAndServe; log.Fatal when it fails
MainListen ==
    /\ cfg.cmd = "main" /\ srv.main = "listen"
    /\ \/ srv' = [srv EXCEPT !.main = "serving", !.listening = TRUE]
       \/ srv' = [srv EXCEPT !.main = "fatal"]
    /\ UNCHANGED <<vin, vout, cfg, job, resp, fs, handles, hist, nreq>>

\* the requests of the clients that are served at the same time: the same
\* upload from each of them, or a request with another method
ConcurrentRequests(handler) ==
    {r \in Requests(handler) :
        \/ r.method # "POST"
        \/ /\ r.hasFile /\ r.bodySize = 1
           /\ r.path = (IF handler = "Convert" THEN <<"/">> \o ExtWav ELSE <<"/">>)
           /\ r.filename = TrackWav
           /\ r.form \in {FormWav(Itoa(16)), Form(ExtWav, <<>>)}}

\* the server accepts a connection and starts the handler in its own
\* goroutine, while the handlers of other connections are running
Accept(j) ==
    /\ srv.main = "serving" /\ srv.listening
    /\ nreq < MaxRequests
    /\ j = nreq + 1
    /\ job[j].pc = "idle"
    /\ LET handler == IF cfg.cmd = "main" THEN "convertHandler" ELSE "Convert"
       IN \E r \in ConcurrentRequests(handler) :
            job' = [job EXCEPT ![j] = [IdleJob EXCEPT !.pc = "dispatch", !.handler = handler,
                                                      !.req = r]]
    /\ nreq' = nreq + 1
    /\ UNCHANGED <<vin, vout, cfg, srv, resp, fs, handles, hist>>

(***************************************************************************)
(* Specification                                                           *)
(***************************************************************************)
Init ==
    /\ vin = NoInput
    /\ vout = NoOutput
    /\ cfg \in {[cmd |-> c, form |-> IF c = "convert" THEN EncodeLimited ELSE EncodeZero] :
                c \in Commands}
    /\ job = [j \in Jobs |-> IdleJob]
    /\ resp = [j \in Jobs |-> IdleResp]
    /\ fs = {}
    /\ handles = <<>>
    /\ hist = [j \in Jobs |-> <<>>]
    /\ nreq = 0
    /\ srv = Serving

Next ==
    \/ CallParseSink
    \/ CallParseSinkAgain
    \/ CallMp3Build
    \/ encodeMp3Cmd
    \/ encodeWavCmd
    \/ WalkPath
    \/ \E j \in Jobs :
        \/ Receive(j)
        \/ Served(j)
        \/ Convert(j)
        \/ convertHandler(j)
        \/ DeferredCleanUp(j)
        \/ DeferredFileClose(j)

Spec == Init /\ [][Next]_vars

\* the server from its start to its end, with its requests served at the same time
InitServer ==
    /\ vin = NoInput
    /\ vout = NoOutput
    /\ cfg \in {[cmd |-> c, form |-> IF c = "convert" THEN EncodeLimited ELSE EncodeZero] :
                c \in {"encode http", "convert", "main"}}
    /\ job = [j \in Jobs |-> IdleJob]
    /\ resp = [j \in Jobs |-> IdleResp]
    /\ fs = {}
    /\ handles = <<>>
    /\ hist = [j \in Jobs |-> <<>>]
    /\ nreq = 0
    /\ srv = IF cfg.cmd = "main" THEN StartingMain ELSE Starting

NextServer ==
    \/ serve
    \/ MainListen
    \/ \E j \in Jobs :
        \/ Accept(j)
        \/ Convert(j)
        \/ convertHandler(j)
        \/ DeferredCleanUp(j)
        \/ DeferredFileClose(j)

SpecServer == InitServer /\ [][NextServer]_vars

(***************************************************************************)
(* Properties.  hist[j] is the sequence of calls the handler of request j  *)
(* has made; resp[j].body holds what it wrote, errors included.            *)
(***************************************************************************)
Has(s, e)   == \E i \in DOMAIN s : s[i] = e
Count(s, e) == Cardinality({i \in DOMAIN s : s[i] = e})

\* every e2 of s comes after an e1
Precedes(s, e1, e2) == \A i \in DOMAIN s : s[i] = e2 => \E k \in 1..(i - 1) : s[k] = e1

\* the handler wrote an error of this format
HasError(w, f) == \E i \in DOMAIN w.body : w.body[i].kind = "error" /\ w.body[i].err.fmt = f

Returned(j) == job[j].pc = "done"

\* the handler acquired a temp output file
TempAcquired(j) == job[j].tempFile # 0

\* the output parameters of request j were rejected: ParseSink returned no
\* build function, or convertHandler refused the output format
ParametersRejected(j) ==
    \/ job[j].handler = "Convert" /\ Has(hist[j], "ParseSink") /\ job[j].fn = NilFn
    \/ job[j].handler = "convertHandler"
       /\ HasError(resp[j], "Invalid output file format: %v")

\* C1: a request whose output parameters are rejected never creates a temp
\* output file; a temp file is created only after ParseSink returned a build
\* function and no error.
C1_NoTempFileForRejectedParameters ==
    \A j \in Jobs :
        /\ ParametersRejected(j) =>
              /\ ~Has(hist[j], "TempFile") /\ ~Has(hist[j], "Create")
              /\ ~TempAcquired(j)
              /\ resp[j].status = 400
        /\ Precedes(hist[j], "ParseSink", "TempFile")
        /\ Has(hist[j], "TempFile") => job[j].fn # NilFn /\ ~HasError(resp[j], "Unsupported format: %v")

\* a request with bit depth 11 was refused by ParseSink and the handler has
\* returned with no file made
C1_Witness ==
    \E j \in Jobs :
        /\ Returned(j) /\ job[j].handler = "Convert"
        /\ job[j].req.form = FormWav(<<"1","1">>)
        /\ ParametersRejected(j)
        /\ fs = {}

\* the pipeline run of request j returned an error
PipelineFailed(j) ==
    \/ HasError(resp[j], "Failed to build pipe: %v")
    \/ HasError(resp[j], "Failed to execute pipe: %v")

\* C2: when the pipeline run fails after the temp output file was acquired,
\* the handler closes and removes that file exactly once before it returns.
C2_ReleaseRunsExactlyOnce ==
    \A j \in Jobs :
        Returned(j) /\ TempAcquired(j) /\ PipelineFailed(j) =>
            /\ Count(hist[j], "Close") = 1
            /\ Count(hist[j], "Remove") = 1

\* C3: a handler that acquired a temp output file returns with the file
\* closed and removed, on every exit path (a removal the operating system
\* refused is left aside).
C3_TempFileClosedAndRemoved ==
    \A j \in Jobs :
        Returned(j) /\ TempAcquired(j) /\ ~Has(hist[j], "log: Failed to delete temp file") =>
            /\ ~Exists(job[j].tmpFileName)
            /\ \A h \in DOMAIN handles :
                    handles[h].name = job[j].tmpFileName => ~handles[h].open

\* the request was refused because of the size of its body
RejectedForSize(j) ==
    \E i \in DOMAIN resp[j].body :
        resp[j].body[i].err \in {EnvErr("http: request body too large"),
                                 Errorf("File too big", <<>>)}

\* C4: with a configured maximum of 0 for the input format the size limit is
\* not applied: a well-formed body of any positive size is not refused for
\* its size and the handler goes on to the form file.
C4_ZeroMeansUnlimited ==
    \A j \in Jobs :
        /\ job[j].handler = "Convert" /\ job[j].maxSize = 0
        /\ job[j].req.bodySize > 0 /\ job[j].req.wellFormed
        /\ Has(hist[j], "ParseMultipartForm")
        => /\ ~RejectedForSize(j)
           /\ job[j].pc \in {"deferred", "done"} => Has(hist[j], "FormFile")

\* the limit configured for the format the request names
ConfiguredLimit(j) ==
    IF job[j].handler = "convertHandler" THEN 2097152
    ELSE CASE job[j].req.path \in {<<"/",".","w","a","v">>, <<"/",".","W","A","V">>}
                -> cfg.form.WavMaxSize
           [] job[j].req.path = <<"/",".","m","p","3">>  -> cfg.form.Mp3MaxSize
           [] job[j].req.path = <<"/",".","f","l","a","c">> -> cfg.form.FlacMaxSize
           [] OTHER -> 0 - 1

AfterParsing == {"FormFile", "FilePump", "NewPump", "ParseSink", "TempFile", "Create",
                 "NewSink", "buildFn", "pipe.New", "pipe.Run"}

\* C5: the ceiling of the request's input format is installed before the
\* multipart form is parsed, and so before the pump and the validation; a
\* body over a positive ceiling ends the request with status 400, with no
\* validation, no temp file and no pipeline run.
C5_CeilingBeforeParsing ==
    \A j \in Jobs :
        /\ Precedes(hist[j], "MaxBytesReader", "ParseMultipartForm")
        /\ job[j].handler = "Convert" => Precedes(hist[j], "InputMaxSize", "MaxBytesReader")
        /\ \A e \in AfterParsing : Precedes(hist[j], "ParseMultipartForm", e)
        /\ Has(hist[j], "MaxBytesReader") => job[j].maxSize = ConfiguredLimit(j)
        /\ ( /\ Has(hist[j], "ParseMultipartForm")
             /\ ConfiguredLimit(j) > 0 /\ job[j].req.bodySize > ConfiguredLimit(j) )
           => /\ job[j].pc \in {"deferred", "done"}
              /\ resp[j].status = 400
              /\ \A e \in AfterParsing : ~Has(hist[j], e)
              /\ ~TempAcquired(j)

\* a body over the positive ceiling of its format was refused with 400
C5_Witness ==
    \E j \in Jobs :
        /\ Returned(j) /\ job[j].handler = "Convert"
        /\ job[j].maxSize > 0 /\ job[j].req.bodySize > job[j].maxSize
        /\ job[j].req.wellFormed /\ job[j].req.form = FormVbr4
        /\ resp[j].status = 400 /\ RejectedForSize(j)

\* what a WAV validation must return for bit depth b
WavVerdict(b, out) ==
    IF b \in {8, 16, 24, 32}
    THEN out.err = NoErr /\ out.fn = [format |-> "wav", bitDepth |-> b]
    ELSE /\ out.err.fmt = "Bit depth %v is not supported"
         /\ AtoiValue(out.err.args[1]) = b
         /\ out.fn = NilFn

\* C6: WAV validation accepts bit depth b iff b is 8, 16, 24 or 32; any
\* other b gives the error "Bit depth b is not supported" and no build
\* function, the command exits with 1 and the handler makes no temp file.
C6_WavBitDepth ==
    /\ vin.adapter = "encode wav" =>
          /\ WavVerdict(vin.bitDepth, vout)
          /\ vin.bitDepth \notin {8, 16, 24, 32} => vout.exit = 1
    /\ ( /\ vin.adapter = "form"
         /\ ToLower(vin.data["format"]) = <<".","w","a","v">>
         /\ AtoiOk(vin.data["wav-bit-depth"]) )
       => WavVerdict(AtoiValue(vin.data["wav-bit-depth"]), vout)
    /\ \A j \in Jobs :
          ( /\ job[j].handler = "Convert" /\ Has(hist[j], "ParseSink")
            /\ job[j].req.form["format"] = <<".","w","a","v">>
            /\ AtoiOk(job[j].req.form["wav-bit-depth"])
            /\ AtoiValue(job[j].req.form["wav-bit-depth"]) \notin {8, 16, 24, 32} )
          => /\ HasError(resp[j], "Bit depth %v is not supported")
             /\ resp[j].status = 400
             /\ job[j].fn = NilFn
             /\ ~TempAcquired(j) /\ ~Has(hist[j], "TempFile")

\* the handler refused bit depth 11 and returned
C6_Witness ==
    \E j \in Jobs :
        /\ Returned(j)
        /\ job[j].req.form["format"] = <<".","w","a","v">>
        /\ job[j].req.form["wav-bit-depth"] = <<"1","1">>
        /\ \E i \in DOMAIN resp[j].body :
              resp[j].body[i].err = Errorf("Bit depth %v is not supported", <<<<"1","1">>>>)
        /\ ~TempAcquired(j)

\* the error of a parameter that was not given
MissingBitRate == Errorf("%s not provided", <<<<"b","i","t"," ","r","a","t","e">>>>)

\* C7: MP3 output with a supported channel mode and mode CBR or ABR and no
\* bit rate fails with the missing-parameter error of the bit rate, for the
\* HTTP form and for the command line flags, and no temp file is made.
C7_MissingBitRate ==
    /\ ( /\ vin.adapter = "form"
         /\ ToLower(vin.data["format"]) = <<".","m","p","3">>
         /\ vin.data["mp3-channel-mode"] = <<"2">>
         /\ vin.data["mp3-bit-rate-mode"] \in {CBR, ABR}
         /\ vin.data["mp3-bit-rate"] = <<>> )
       => vout.err = MissingBitRate /\ vout.fn = NilFn
    /\ ( /\ vin.adapter = "encode mp3"
         /\ vin.channelMode \in {0, 1, 2}
         /\ ToUpper(vin.bitRateMode) \in {CBR, ABR}
         /\ ~vin.given["bitrate"] )
       => vout.err = MissingBitRate /\ vout.fn = NilFn /\ vout.exit = 1
    /\ \A j \in Jobs :
          job[j].handler = "Convert" /\ Has(hist[j], "ParseSink") /\ job[j].req.form = FormCbrNoRate
          => /\ \E i \in DOMAIN resp[j].body : resp[j].body[i].err = MissingBitRate
             /\ ~TempAcquired(j) /\ ~Has(hist[j], "TempFile")

\* the handler wrote no error
NoErrorWritten(j) == \A i \in DOMAIN resp[j].body : resp[j].body[i].kind # "error"

\* C8: the request with file track.wav, output mp3, channel mode 2, mode VBR
\* and VBR quality 4 passes the format resolution, the size check and the
\* validation; when nothing fails and the pipe wrote output, the response is
\* 200 with the MP3 content type and the length of the output.
C8_TrackWavToMp3 ==
    \A j \in Jobs :
        ( /\ Returned(j) /\ job[j].handler = "Convert" /\ job[j].req.method = "POST"
          /\ job[j].req.path = <<"/",".","w","a","v">> /\ job[j].req.wellFormed
          /\ job[j].req.filename = <<"t","r","a","c","k",".","w","a","v">>
          /\ job[j].req.form = FormVbr4
          /\ (job[j].maxSize = 0 \/ job[j].req.bodySize <= job[j].maxSize) )
        => /\ ~RejectedForSize(j)
           /\ Has(hist[j], "FilePump") /\ job[j].pump = "wav"
           /\ Has(hist[j], "ParseSink")
           /\ job[j].fn = [format |-> "mp3", brm |-> [mode |-> "VBR", rate |-> 4],
                           channelMode |-> 2, useQuality |-> FALSE, quality |-> 0]
           /\ (NoErrorWritten(j) /\ job[j].size > 0) =>
                 /\ resp[j].status = 200
                 /\ resp[j].headers.contentType = "audio/mpeg"
                 /\ AtoiValue(resp[j].headers.contentLength) = job[j].size
                 /\ \E i \in DOMAIN resp[j].body :
                        resp[j].body[i].kind = "file" /\ resp[j].body[i].bytes = job[j].size

\* the typed MP3 validators: the call, its quality gate and its verdict
TypedMp3Call == vin.adapter \in {"input.Mp3.Build", "encode mp3"}
UseQuality   == IF vin.adapter = "encode mp3" THEN vin.given["quality"] ELSE vin.useQuality
GatePasses   == UseQuality => (0 <= vin.quality /\ vin.quality <= 9)
Accepted     == vout.err = NoErr /\ vout.fn # NilFn

\* what the claim says of the rates, for the mode m
RateVerdict(m) ==
    /\ m = VBR => (Accepted <=> (0 <= vin.bitRate /\ vin.bitRate <= 9))
    /\ m \in {CBR, ABR} => (Accepted <=> (8 <= vin.bitRate /\ vin.bitRate <= 320))
    /\ m \notin {VBR, CBR, ABR} => ~Accepted
    /\ Accepted => vout.fn.brm.rate = vin.bitRate

\* C9, amended: for a supported channel mode, VBR accepts rate r iff
\* 0 <= r <= 9, CBR and ABR accept r iff 8 <= r <= 320, and every other mode
\* is rejected, where file.Mp3.BuildSink matches the mode whatever its case
\* ("vbr" is VBR) and input.Mp3.Build matches it as written.
C9_RateRangesByMatchedMode ==
    (TypedMp3Call /\ vin.channelMode \in {0, 1, 2} /\ GatePasses) =>
        RateVerdict(IF vin.adapter = "encode mp3" THEN ToUpper(vin.bitRateMode)
                    ELSE vin.bitRateMode)

\* C9 as stated: the same, with every mode other than the strings VBR, CBR
\* and ABR rejected.
C9_RateRangesByMode ==
    (TypedMp3Call /\ vin.channelMode \in {0, 1, 2} /\ GatePasses) =>
        RateVerdict(vin.bitRateMode)

\* the command line took mode "cbr" with the largest bit rate
C9_Witness ==
    /\ vin.adapter = "encode mp3"
    /\ vin.bitRateMode = <<"c","b","r">> /\ vin.bitRate = 320 /\ vin.channelMode = 1
    /\ Accepted /\ vout.fn.brm = [mode |-> "CBR", rate |-> 320]

\* a form whose parameters other than the quality gate are valid
GateForm ==
    /\ vin.adapter = "form"
    /\ vin.data["format"] = <<".","m","p","3">>
    /\ vin.data["mp3-channel-mode"] = <<"2">>
    /\ \/ vin.data["mp3-bit-rate-mode"] = VBR
          /\ vin.data["mp3-vbr-quality"] \in {<<"0">>, <<"4">>, <<"9">>}
       \/ vin.data["mp3-bit-rate-mode"] \in {CBR, ABR}
          /\ vin.data["mp3-bit-rate"] \in {<<"8">>, <<"3","2","0">>}

QualityName == <<"m","p","3"," ","q","u","a","l","i","t","y">>

\* C10: with the use-quality flag absent or false the quality is neither
\* required nor checked and the sink has no quality set; with the flag true
\* the quality is required, must be an integer in 0..9 and is set on the sink.
C10_QualityGate ==
    /\ GateForm =>
        LET u == vin.data["mp3-use-quality"]
            q == vin.data["mp3-quality"]
            sink == ApplyFn(vout.fn, "w")
        IN /\ u \in {<<>>, <<"f","a","l","s","e">>} =>
                 Accepted /\ ~sink.qualitySet /\ sink.quality = 0
           /\ u \in {<<"t","r","u","e">>, <<"1">>} =>
                 /\ q = <<>> => vout.err = Errorf("%s not provided", <<QualityName>>)
                 /\ (q # <<>> /\ ~AtoiOk(q)) =>
                        vout.err = Errorf("Failed parsing %s %s: %v", <<QualityName, q>>)
                 /\ (AtoiOk(q) /\ (AtoiValue(q) < 0 \/ AtoiValue(q) > 9)) =>
                        vout.err = Errorf("MP3 quality %v is not supported", <<q>>)
                 /\ (AtoiOk(q) /\ 0 <= AtoiValue(q) /\ AtoiValue(q) <= 9) =>
                        Accepted /\ sink.qualitySet /\ sink.quality = AtoiValue(q)
    /\ ( /\ TypedMp3Call /\ ~UseQuality /\ vin.channelMode = 2
         /\ vin.bitRateMode = VBR /\ vin.bitRate = 0 )
       => Accepted /\ ~ApplyFn(vout.fn, "w").qualitySet

\* no flag and a quality that is no number: accepted, no quality on the sink
C10_Witness ==
    /\ GateForm
    /\ vin.data["mp3-use-quality"] = <<>> /\ vin.data["mp3-quality"] = <<"x">>
    /\ Accepted /\ ~ApplyFn(vout.fn, "w").qualitySet

\* C11: validation is idempotent: the configuration ParseSink accepted,
\* written back as form values and validated again, is accepted and gives
\* an equal configuration, extension and sink.
C11_ValidationIdempotent ==
    vin.adapter = "form again" =>
        /\ vout.err = NoErr
        /\ vout.fn = vin.accepted.fn
        /\ vout.ext = vin.accepted.ext
        /\ ApplyFn(vout.fn, "w") = ApplyFn(vin.accepted.fn, "w")

\* a CBR configuration with a quality went through validation twice
C11_Witness ==
    /\ vin.adapter = "form again"
    /\ vin.accepted.fn.format = "mp3"
    /\ vin.accepted.fn.brm = [mode |-> "CBR", rate |-> 320]
    /\ vin.accepted.fn.useQuality /\ vin.accepted.fn.quality = 9
    /\ vout.err = NoErr

\* the handler has resolved the input format of the uploaded file
InputResolved(j) == Has(hist[j], "FormFile") /\ job[j].req.hasFile /\ job[j].pc # "pump"

\* the extension of the uploaded file in lower case
LowerExt(j) == ToLower(FilepathExt(job[j].req.filename))

\* C12: the input format depends only on the extension of the file name,
\* compared without regard to case: a name whose lower-case spelling ends in
\* .wav resolves to WAV and one ending in .mp3 to MP3, whatever its case, to
\* one format only, and an extension of no format is refused with 400.
C12_InputFormatByExtension ==
    \A j \in Jobs :
        InputResolved(j) =>
            /\ LowerExt(j) = <<".","w","a","v">> => job[j].pump = "wav"
            /\ LowerExt(j) = <<".","m","p","3">> => job[j].pump = "mp3"
            /\ LowerExt(j) \notin {<<".","w","a","v">>, <<".","w","a","v","e">>,
                                   <<".","m","p","3">>, <<".","f","l","a","c">>}
               => /\ job[j].pump = ""
                  /\ resp[j].status = 400
                  /\ \/ HasError(resp[j], "File has unsupported extension: %v")
                     \/ HasError(resp[j], "Invalid input file format: %v")

\* the handler has looked at the output format the request names
OutputResolved(j) ==
    \/ job[j].handler = "Convert" /\ Has(hist[j], "ParseSink")
    \/ job[j].handler = "convertHandler" /\ InputResolved(j) /\ job[j].pump # ""
       /\ job[j].pc # "sink"

\* the steps of a job that follow the resolution of its formats
AfterResolution == {"TempFile", "Create", "NewSink", "buildFn", "pipe.New", "pipe.Run",
                    "Seek", "Stat", "Header", "Copy"}

\* the request was refused as a whole for its format
AbortedForFormat(j) ==
    /\ job[j].pc \in {"deferred", "done"}
    /\ resp[j].status = 400
    /\ Len(resp[j].body) = 1
    /\ resp[j].body[1].err.fmt \in {"File has unsupported extension: %v",
                                    "Invalid input file format: %v",
                                    "Unsupported format: %v",
                                    "Invalid output file format: %v"}
    /\ \A e \in AfterResolution : ~Has(hist[j], e)
    /\ ~TempAcquired(j)

\* C13: an input extension or an output format that is not supported aborts
\* the job at once with an unsupported-format error with status 400: no temp
\* file, no pipe built or run, no headers of a result; and no pipe is built
\* for an output format for which no sink was built.
C13_UnsupportedFormatAborts ==
    \A j \in Jobs :
        /\ (InputResolved(j) /\ job[j].pump = "") => AbortedForFormat(j)
        /\ ( /\ OutputResolved(j)
             /\ ToLower(job[j].req.form["format"]) \notin {<<".","w","a","v">>, <<".","m","p","3">>} )
           => AbortedForFormat(j)
        /\ Has(hist[j], "pipe.New") => job[j].sink \in {"wav", "mp3"}

\* what the handler of job j has written to its client
ErrorsWritten(j) == Cardinality({i \in DOMAIN resp[j].body : resp[j].body[i].kind = "error"})
SuccessWritten(j) ==
    \/ resp[j].headers.contentLength # <<>>
    \/ \E i \in DOMAIN resp[j].body : resp[j].body[i].kind = "file"

\* C14: a job has exactly one outcome: once the handler of a POST has
\* returned it has written either the result or one error, never both and
\* never two errors, and a handler that has written an error does nothing
\* more than return.
C14_OneTerminalOutcome ==
    \A j \in Jobs :
        /\ ErrorsWritten(j) <= 1
        /\ ~(ErrorsWritten(j) >= 1 /\ SuccessWritten(j))
        /\ ErrorsWritten(j) >= 1 => job[j].pc \in {"deferred", "done"}
        /\ (Returned(j) /\ job[j].req.method = "POST")
           => (ErrorsWritten(j) = 1 \/ SuccessWritten(j))

\* job j holds an output temp file: it has acquired one and not released it
Holds(j) == job[j].pc \notin {"idle", "done"} /\ IsOpen(job[j].tempFile)

\* C15: jobs that run at the same time each use the output temp file they
\* acquired themselves: no two of them hold the same handle or the same
\* path, also when the names of their input files are equal, and the
\* handle a job holds is the one it opened.
C15_OwnTempFile ==
    \A j \in Jobs :
        Holds(j) =>
            /\ handles[job[j].tempFile].owner = j
            /\ \A k \in Jobs \ {j} :
                Holds(k) => /\ job[k].tempFile # job[j].tempFile
                            /\ handles[job[k].tempFile].name # handles[job[j].tempFile].name

\* the cleanup of the process has begun: the interrupt channel is closed,
\* or the temp directory is removed, or serve has returned
CleanupBegun ==
    \/ srv.interrupt = "closed"
    \/ srv.main = "returned"
    \/ srv.shut /\ ~srv.dir

\* job j has released the temp file it acquired
Released(j) == TempAcquired(j) => Has(hist[j], "cleanUp") /\ ~IsOpen(job[j].tempFile)

\* C16: once the signal has made the server shut down no request is
\* accepted any more, and the cleanup of the process (close of the interrupt
\* channel, removal of the temp directory, return of serve) begins only when
\* no handler is running and every job that acquired a temp file has run
\* its cleanUp.
C16_ShutdownWaitsForJobs ==
    /\ [](CleanupBegun => (InFlight = {} /\ \A j \in Jobs : Released(j)))
    /\ [][srv.shut => (nreq' = nreq /\ \A j \in Jobs : job[j].pc = "idle" => job'[j].pc = "idle")]_vars

\* the server is shutting down while a job that holds a temp file is running
C16_Witness ==
    /\ srv.sig = "draining" /\ srv.main = "wait"
    /\ \E j \in Jobs : Holds(j) /\ job[j].handler = "Convert"

\* the calls of log.Printf the handlers make
LogCalls == {"log: Failed to close temp file", "log: Failed to delete temp file"}

\* the handler of job j wrote to the log after it built the pipe and before
\* it released the temp file
LoggedAtPipe(j) ==
    \E i \in DOMAIN hist[j] :
        /\ hist[j][i] \in LogCalls
        /\ \E k \in 1..(i - 1) : hist[j][k] = "pipe.New"
        /\ \A k \in 1..(i - 1) : hist[j][k] # "cleanUp"

\* C17: when building or running the pipe fails, the response tells the
\* client of a failed conversion without the text of the underlying error,
\* and the error is written to the server's log.
C17_PipelineFailureIsGeneric ==
    \A j \in Jobs :
        PipelineFailed(j) =>
            /\ \A i \in DOMAIN resp[j].body :
                   resp[j].body[i].kind = "error" => resp[j].body[i].err.args = <<>>
            /\ LoggedAtPipe(j)

\* C18: a failure of the release of the temp file after the result was sent
\* is logged and nothing else: no error is written to the response for it,
\* and a Close that failed is still followed by the Remove.
C18_ReleaseFailureOnlyLogged ==
    \A j \in Jobs :
        Has(hist[j], "Copy") =>
            /\ \A i \in DOMAIN resp[j].body :
                   resp[j].body[i].kind = "error"
                   => resp[j].body[i].err.fmt = "Failed to transfer file: %v"
            /\ Has(hist[j], "log: Failed to close temp file") => Has(hist[j], "Remove")

\* the acquisition of the output temp file of job j failed
AcquisitionFailed(j) ==
    \/ HasError(resp[j], "Error creating temp file: %v")
    \/ job[j].handler = "Convert" /\ Has(hist[j], "TempFile") /\ ~TempAcquired(j)

\* C19: when the temp file cannot be created the job is aborted with that
\* error before any work on the pipe: no sink is bound, no pipe is built or
\* run, no release of a file that was never acquired is attempted, and
\* nothing is written after the error.
C19_AcquisitionFailureAborts ==
    \A j \in Jobs :
        AcquisitionFailed(j) =>
            /\ job[j].pc \in {"deferred", "done"}
            /\ resp[j].status = 500
            /\ ErrorsWritten(j) = 1 /\ Len(resp[j].body) = 1
            /\ job[j].sink = ""
            /\ \A e \in {"NewSink", "buildFn", "pipe.New", "pipe.Run", "Seek", "Stat", "Header",
                         "Copy", "cleanUp", "Close", "Remove"} : ~Has(hist[j], e)

\* the handler of job j has begun to finalize its output
Finalized(j) == Has(hist[j], "Seek") \/ Has(hist[j], "Stat") \/ Has(hist[j], "Open")

RunSucceeded(j) == Has(hist[j], "pipe.Run") /\ ~PipelineFailed(j)

\* the run, the rewind or the lookup of the size failed
FinalizationFailed(j) ==
    \/ PipelineFailed(j)
    \/ HasError(resp[j], "Failed to reset temp file: %v")
    \/ HasError(resp[j], "Failed to re-open temp file: %v")
    \/ HasError(resp[j], "Failed to get file stats: %v")
    \/ HasError(resp[j], "Failed to close temp file: %v") /\ ~Has(hist[j], "Copy")

\* the output file of job j is still there
OutputKept(j) == ~Has(hist[j], "Remove") /\ Exists(job[j].tmpFileName)

ErrClass(err) ==
    CASE err = NoErr -> "accepted"
      [] err.fmt \in {"%s not provided", "Please provide bit rate mode"} -> "missing"
      [] err.fmt = "Failed parsing %s %s: %v" -> "malformed"
      [] OTHER -> "unsupported"

\* what is wrong with the raw value of an integer parameter
IntCause(str, domain) ==
    IF str = <<>> THEN "missing"
    ELSE IF ~AtoiOk(str) THEN "malformed"
    ELSE IF AtoiValue(str) \notin domain THEN "unsupported"
    ELSE "none"

ModeCause(data) ==
    IF data["mp3-bit-rate-mode"] = <<>> THEN "missing"
    ELSE IF ToUpper(data["mp3-bit-rate-mode"]) \notin {VBR, CBR, ABR} THEN "unsupported"
    ELSE "none"

RateCause(data) ==
    IF ModeCause(data) # "none" THEN "none"
    ELSE IF ToUpper(data["mp3-bit-rate-mode"]) = VBR
         THEN IntCause(data["mp3-vbr-quality"], 0..9)
         ELSE IntCause(data["mp3-bit-rate"], MinBitRate..MaxBitRate)

GateCause(data) ==
    IF data["mp3-use-quality"] \in {<<>>} \cup ParseBoolTrue \cup ParseBoolFalse
    THEN "none" ELSE "malformed"

QualityValueCause(data) ==
    IF data["mp3-use-quality"] \in ParseBoolTrue
    THEN IntCause(data["mp3-quality"], 0..9) ELSE "none"

\* everything that is wrong with the parameters of a form
Causes(data) ==
    (IF ToLower(data["format"]) = ExtWav
     THEN {IntCause(data["wav-bit-depth"], BitDepths)}
     ELSE {IntCause(data["mp3-channel-mode"], ChannelModes), ModeCause(data), RateCause(data),
           GateCause(data), QualityValueCause(data)})
    \ {"none"}

RateField(mode) == IF mode = "VBR" THEN "mp3-vbr-quality" ELSE "mp3-bit-rate"

Rank(param) == CASE param = "mode" -> 1 [] param = "rate" -> 2 [] OTHER -> 3

\* the parameter an error of the MP3 validation is about
ErrParam(err) ==
    CASE err.fmt \in {"Please provide bit rate mode", "Bit rate mode %v is not supported",
                      "VBR mode %v is not supported"} -> "mode"
      [] err.fmt \in {"Bit rate %v is not supported. Provide value between %d and %d",
                      "VBR quality %v is not supported"} -> "rate"
      [] err.fmt \in {"%s not provided", "Failed parsing %s %s: %v"} ->
            (CASE err.args[1] \in {<<"v","b","r"," ","q","u","a","l","i","t","y">>,
                                   <<"b","i","t"," ","r","a","t","e">>} -> "rate"
               [] err.args[1] = <<"c","h","a","n","n","e","l"," ","m","o","d","e">> -> "channel"
               [] OTHER -> "quality")
      [] err.fmt = "Channel mode %v is not supported" -> "channel"
      [] OTHER -> "quality"

\* the parameters of an MP3 form that are not valid
InvalidParams(data) ==
    {p \in {"mode", "rate", "channel", "quality"} :
        CASE p = "mode" -> ModeCause(data) # "none"
          [] p = "rate" -> RateCause(data) # "none"
          [] p = "channel" -> IntCause(data["mp3-channel-mode"], ChannelModes) # "none"
          [] OTHER -> GateCause(data) # "none" \/ QualityValueCause(data) # "none"}

\* C22: the MP3 validation checks the bit rate mode first, then the rate of
\* the mode, then channel mode and quality: the error reported for a form is
\* about a parameter that is invalid and that no invalid parameter precedes in
\* that order, and a rate is range-checked only under a supported mode.
C22_ValidationOrder ==
    (vin.adapter = "form" /\ ToLower(vin.data["format"]) = ExtMp3 /\ vout.err # NoErr) =>
        /\ ErrParam(vout.err) \in InvalidParams(vin.data)
        /\ \A p \in InvalidParams(vin.data) : Rank(ErrParam(vout.err)) <= Rank(p)
        /\ (ErrParam(vout.err) = "rate" /\ ErrClass(vout.err) = "unsupported")
           => ModeCause(vin.data) = "none"

\* encode.go:96 maxSizes: the table of limits the form is rendered with, one
\* entry for every extension of every input format
maxSizes(c) ==
    [ext \in Mp3Extensions \cup WavExtensions \cup FlacExtensions |->
        CASE ext \in FlacExtensions -> c.FlacMaxSize
          [] ext \in WavExtensions -> c.WavMaxSize
          [] OTHER -> c.Mp3MaxSize]

\* C26: for every POST whose path has an extension that resolves to an input
\* format (".wave" as well as ".wav"), the lookup of the maximum size gives
\* the limit the table of the form holds for that extension, and no
\* unsupported-format error.
C26_MaxSizeForEveryInputExtension ==
    \A j \in Jobs :
        (job[j].handler = "Convert" /\ job[j].req.method = "POST"
         /\ Has(hist[j], "InputMaxSize") /\ Pump(job[j].req.path).err = NoErr) =>
            /\ ~HasError(resp[j], "Format %s not supported")
            /\ job[j].maxSize = maxSizes(cfg.form)[ToLower(FilepathExt(job[j].req.path))]

\* the command has run: its flags were validated
CmdRan == vin.adapter \in {"encode mp3", "encode wav"}

\* C28: the encode commands validate once before any path: a failed
\* validation ends the command with status 1, its error logged and no path
\* walked; after a passed validation the paths are walked in the order of the
\* arguments, an error of a walk is logged and the walk goes on, and the
\* command returns only when every path was walked.
C28_ValidateOnceThenWalkAll ==
    CmdRan =>
        /\ vout.err # NoErr =>
              vout.exit = 1 /\ vout.pc = "exited" /\ vout.walked = <<>> /\ vout.log = <<vout.err>>
        /\ vout.err = NoErr =>
              /\ vout.exit = 0 - 1
              /\ Len(vout.walked) <= Len(vin.args)
              /\ vout.walked = SubSeq(vin.args, 1, Len(vout.walked))
              /\ vout.pc = "returned" <=> vout.walked = vin.args
              /\ \A i \in DOMAIN vout.log :
                    vout.log[i].fmt = "walk %v" /\ Has(vout.walked, vout.log[i].args[1])

\* a path was walked after the walk of the path before it failed
C28_Witness ==
    /\ CmdRan /\ vout.err = NoErr /\ vout.pc = "returned"
    /\ Len(vin.args) = MaxArgs /\ vout.walked = vin.args
    /\ vout.log = <<WalkError(vin.args[1])>>

\* what a handler does for a GET: Convert writes the form it rendered when it
\* was built, convertHandler executes the template on the response
FormWritten(j) == IF job[j].handler = "Convert" THEN <<"Write">> ELSE <<"Execute">>

\* C29: the handlers dispatch on the method: a GET only writes the form, any
\* method other than GET and POST is answered 405, and in both cases the body
\* is not parsed, no temp file is created and no pipe is run; only a POST
\* reaches the acquisition of a resource.
C29_MethodDispatch ==
    \A j \in Jobs :
        (job[j].handler # "" /\ job[j].pc # "dispatch") =>
            /\ job[j].req.method = "GET" =>
                  /\ hist[j] = FormWritten(j)
                  /\ Returned(j) /\ ~TempAcquired(j)
                  /\ \A i \in DOMAIN resp[j].body :
                        \/ resp[j].body[i].kind = "form"
                        \/ resp[j].body[i].err = EnvErr("write")
            /\ job[j].req.method \notin {"GET", "POST"} =>
                  /\ hist[j] = <<"WriteHeader">>
                  /\ Returned(j) /\ ~TempAcquired(j)
                  /\ resp[j].status = 405 /\ resp[j].body = <<>>
            /\ (TempAcquired(j) \/ \E i \in DOMAIN hist[j] :
                    hist[j][i] \notin {"Write", "Execute", "WriteHeader"})
               => job[j].req.method = "POST"

\* a PUT was answered 405 by controller.Convert
C29_Witness ==
    \E j \in Jobs :
        /\ job[j].handler = "Convert" /\ Returned(j)
        /\ job[j].req.method = "PUT" /\ resp[j].status = 405 /\ hist[j] = <<"WriteHeader">>

====
